---- MODULE Spec2Model ----
(***************************************************************************)
(* Model of ecom-product-service: the product store (internal/model), the  *)
(* PostgreSQL schema it runs on (api.InitDB) and the SKU generator         *)
(* (internal/utils).  Every database/sql statement of a store function is  *)
(* one step; a transaction's writes stay private to the call until its     *)
(* Commit, as under PostgreSQL's default READ COMMITTED isolation, which   *)
(* is what DB.Begin() without options gives.                               *)
(***************************************************************************)
EXTENDS Integers, Sequences, FiniteSets, TLC

(***************************************************************************)
(* Bounds of the model.                                                    *)
(***************************************************************************)
NProcs == 2          \* concurrent requests
MaxCalls == 2        \* requests and direct store calls started
NSkus == 2           \* distinct values the random source yields
MaxId == 3           \* cap of product_productinfo's id sequence
MaxImageId == 3      \* cap of product_productimage's id sequence

Procs == 1..NProcs

(***************************************************************************)
(* Strings are sequences of one-character strings.                         *)
(***************************************************************************)
Str(len, c) == [i \in 1..len |-> c]

\* utils.GetRandomSKU: the SKU length.
n == 10

\* utils.GetRandomSKU: the alphabet.
base ==
    << "0", "1", "2", "3", "4", "5", "6", "7", "8", "9",
       "a", "b", "c", "d", "e", "f", "g", "h", "i", "j", "k", "l", "m",
       "n", "o", "p", "q", "r", "s", "t", "u", "v", "w", "x", "y", "z",
       "A", "B", "C", "D", "E", "F", "G", "H", "I", "J", "K", "L", "M",
       "N", "O", "P", "Q", "R", "S", "T", "U", "V", "W", "X", "Y", "Z" >>

\* A plausible slip: rand.Seed called with a constant, so that every call
\* draws the same values.
RandDrawsFixedSeed == { [i \in 1..n |-> (11 + i) % Len(base)] }

\* rand.Intn(len(base)) for each of the n positions: the draws of one call.
RandDraws == { [i \in 1..n |-> (k * 11 + i) % Len(base)] : k \in 1..NSkus }

\* utils.GetRandomSKU, given the n values rand.Intn returns.
GetRandomSKU(draws) == [i \in 1..n |-> base[draws[i] + 1]]

SKUs == { GetRandomSKU(d) : d \in RandDraws }

(***************************************************************************)
(* Column types of the schema.  A value assigned to VARCHAR(k) is stored   *)
(* as it is when it has at most k characters, is cut to k characters when  *)
(* every character past the k-th is a space, and is refused otherwise.     *)
(***************************************************************************)
SkuColumnLen == 15
NameColumnLen == 100

VarcharFits(s, k) ==
    \/ Len(s) <= k
    \/ \A i \in (k + 1)..Len(s) : s[i] = " "

VarcharAssign(s, k) == IF Len(s) <= k THEN s ELSE SubSeq(s, 1, k)

(***************************************************************************)
(* model.ProductInfo values the callers pass.  Price and Weight are        *)
(* numbers the NUMERIC and REAL columns hold exactly; Stock and UserID are *)
(* within the INT columns' range.                                          *)
(***************************************************************************)
ZeroInfo ==
    [ID |-> 0, SKU |-> << >>, Name |-> << >>, Price |-> 0, Weight |-> 0,
     Description |-> << >>, Stock |-> 0, UserID |-> 0]

\* The SKU of the id-th record of the stores the requests start from.
InitSKU(id) == GetRandomSKU([i \in 1..n |-> (id * 11 + i) % Len(base)])

ProductInfoInputs ==
    { [ID |-> 0, SKU |-> << >>, Name |-> << "A", "b" >>, Price |-> 15,
       Weight |-> 2, Description |-> << >>, Stock |-> 5, UserID |-> 1],
      [ID |-> 9, SKU |-> InitSKU(1), Name |-> << "b", "c" >>,
       Price |-> 7, Weight |-> 1, Description |-> << "a", "B" >>,
       Stock |-> 0, UserID |-> 2],
      [ID |-> 0, SKU |-> << >>, Name |-> Str(NameColumnLen, "c") \o << " " >>,
       Price |-> 0, Weight |-> 0, Description |-> << "b" >>, Stock |-> -1,
       UserID |-> 1],
      [ID |-> 0, SKU |-> << >>, Name |-> Str(NameColumnLen + 1, "c"),
       Price |-> 7, Weight |-> 2, Description |-> << >>, Stock |-> 5,
       UserID |-> 2] }

(***************************************************************************)
(* State.                                                                  *)
(***************************************************************************)
VARIABLES
    product_productinfo,    \* committed rows of table product_productinfo
    product_productimage,   \* committed rows of table product_productimage
    productinfo_id_seq,     \* last value of product_productinfo.id's sequence
    productimage_id_seq,    \* last value of product_productimage.id's sequence
    media,                  \* image paths written to the media folder
    call,                   \* per request: the store call it is running
    ncalls,                 \* requests and direct store calls started so far
    lastInsert,             \* the last InsertProductInfo that committed, while
                            \* no later transaction has committed
    lastWrite               \* the last UpdateProductInfoBySKU or
                            \* DeleteProductBySKU that committed, while no
                            \* later transaction has committed

vars ==
    << product_productinfo, product_productimage, productinfo_id_seq,
       productimage_id_seq, media, call, ncalls, lastInsert, lastWrite >>

db == << product_productinfo, product_productimage >>

\* A transaction's uncommitted writes.
NoTx == [ins |-> {}, upd |-> {}, del |-> {}, imgDel |-> {}, imgIns |-> {}]

\* No InsertProductInfo has committed, or another transaction did after it.
NoInsert == [arg |-> ZeroInfo, ret |-> ZeroInfo]

\* No UpdateProductInfoBySKU or DeleteProductBySKU has committed, or another
\* transaction did after it.
NoWrite == [op |-> "none", arg |-> ZeroInfo, found |-> FALSE]

\* No HTTP request: the store function is called directly.  search and qty
\* are the query parameter search and the form field qty; db is the content
\* of the two tables when the request arrived.
NoReq ==
    [handler |-> "", u |-> [ID |-> 0, Role |-> ""], form |-> ZeroInfo,
     SKU |-> << >>, multipart |-> FALSE, files |-> << >>,
     search |-> << >>, qty |-> 0, db |-> << {}, {} >>]

\* A request that runs no store call.  req is the HTTP request a handler
\* serves and status the status of its response, 0 while there is none.
Idle ==
    [op |-> "idle", pc |-> "done", arg |-> ZeroInfo, pInfo |-> ZeroInfo,
     SKU |-> << >>, fileHeaders |-> << >>, imagePath |-> << >>,
     search |-> << >>, i |-> 0,
     tx |-> NoTx, snap |-> {}, rows |-> << >>, sop |-> << >>, err |-> "nil",
     after |-> NoInsert, req |-> NoReq, status |-> 0]

\* Request p can start a call: it runs none, and the handler it runs, if any,
\* has responded.
Free(p) ==
    /\ call[p].pc = "done"
    /\ call[p].req.handler = "" \/ call[p].status # 0

\* A plausible slip: the INSERT passes pInfo.SKU, the caller's value, instead
\* of the SKU the loop settled on.
InfoRowOfCallerSKU(id, SKU, pInfo) ==
    [id |-> id,
     sku |-> VarcharAssign(pInfo.SKU, SkuColumnLen),
     name |-> VarcharAssign(pInfo.Name, NameColumnLen),
     price |-> pInfo.Price,
     weight |-> pInfo.Weight,
     description |-> pInfo.Description,
     stock |-> pInfo.Stock,
     account_user_id |-> pInfo.UserID]

\* The row INSERT INTO product_productinfo(...) VALUES($1..$7) builds.
InfoRow(id, SKU, pInfo) ==
    [id |-> id,
     sku |-> VarcharAssign(SKU, SkuColumnLen),
     name |-> VarcharAssign(pInfo.Name, NameColumnLen),
     price |-> pInfo.Price,
     weight |-> pInfo.Weight,
     description |-> pInfo.Description,
     stock |-> pInfo.Stock,
     account_user_id |-> pInfo.UserID]

\* Whether the parameters of the INSERT or UPDATE fit their columns.
InfoFits(SKU, pInfo) ==
    /\ VarcharFits(SKU, SkuColumnLen)
    /\ VarcharFits(pInfo.Name, NameColumnLen)

\* A plausible slip: the SELECT without its WHERE clause.
RowsBySKUNoWhere(SKU) == product_productinfo

\* SELECT ... FROM product_productinfo WHERE sku = $1: the committed rows.
RowsBySKU(SKU) == { r \in product_productinfo : r.sku = SKU }

\* Rows of product_productinfo an UPDATE or DELETE of another transaction in
\* progress holds locked.
PendingInfoIds(p) ==
    UNION { { r.id : r \in call[q].tx.upd } \cup call[q].tx.del :
            q \in Procs \ {p} }

\* The sku of the rows another transaction in progress has inserted,
\* updated or deleted.
PendingInfoSkus(p) ==
    UNION { { r.sku : r \in call[q].tx.ins } : q \in Procs \ {p} }
    \cup { r.sku : r \in { x \in product_productinfo : x.id \in PendingInfoIds(p) } }

\* The unique index on sku makes an INSERT wait for every transaction in
\* progress that wrote a row with the same sku.
UniqueWait(p, SKU) == SKU \in PendingInfoSkus(p)

\* A plausible slip: column sku declared without UNIQUE.
UniqueViolationNotDeclared(SKU) == FALSE

\* The UNIQUE constraint of column sku.
UniqueViolation(SKU) == RowsBySKU(SKU) # {}


\* Products a DELETE of another transaction in progress holds locked.
DeletingInfoIds(p) == UNION { call[q].tx.del : q \in Procs \ {p} }

\* Products that image rows inserted by another transaction in progress
\* reference: the foreign key check holds them locked against DELETE.
KeySharedInfoIds(p) ==
    UNION { { m.product_productinfo_id : m \in call[q].tx.imgIns } :
            q \in Procs \ {p} }

\* Rows of product_productimage a DELETE of another transaction in progress
\* holds locked.
LockedImageIds(p) == UNION { call[q].tx.imgDel : q \in Procs \ {p} }

\* The call of p ends: its transaction is over, err is what it returns.
Return(c, err) ==
    [c EXCEPT !.pc = "done", !.tx = NoTx, !.snap = {}, !.err = err]

(***************************************************************************)
(* model.InsertProductInfo                                                 *)
(***************************************************************************)
\* DB.Begin()
InsertProductInfoBegin(p) ==
    /\ Free(p)
    /\ ncalls < MaxCalls
    /\ ncalls' = ncalls + 1
    /\ \E pInfo \in ProductInfoInputs :
        LET c == [Idle EXCEPT !.op = "InsertProductInfo", !.arg = pInfo,
                              !.pInfo = pInfo]
        IN \/ call' = [call EXCEPT ![p] = [c EXCEPT !.pc = "loop"]]
           \/ call' = [call EXCEPT ![p] = Return(c, "StoreError")]
    /\ UNCHANGED << db, productinfo_id_seq, productimage_id_seq, media,
                    lastInsert, lastWrite >>

\* A plausible slip: the loop left when the SELECT finds a row (err == nil)
\* and repeated when it finds none.
InsertProductInfoLoopUntilFound(p) ==
    /\ call[p].op = "InsertProductInfo"
    /\ call[p].pc = "loop"
    /\ \E draws \in RandDraws :
        LET SKU == GetRandomSKU(draws)
            c == [call[p] EXCEPT !.SKU = SKU]
        IN \/ call' = [call EXCEPT ![p] = Return(c, "StoreError")]
           \/ /\ RowsBySKU(SKU) = {}
              /\ call' = [call EXCEPT ![p] = c]
           \/ /\ RowsBySKU(SKU) # {}
              /\ call' = [call EXCEPT ![p] = [c EXCEPT !.pc = "insert"]]
    /\ UNCHANGED << db, productinfo_id_seq, productimage_id_seq, media, ncalls,
                    lastInsert, lastWrite >>

\* One iteration of the loop: a candidate SKU and the SELECT that looks it up.
InsertProductInfoLoop(p) ==
    /\ call[p].op = "InsertProductInfo"
    /\ call[p].pc = "loop"
    /\ \E draws \in RandDraws :
        LET SKU == GetRandomSKU(draws)
            c == [call[p] EXCEPT !.SKU = SKU]
        IN \/ call' = [call EXCEPT ![p] = Return(c, "StoreError")]
           \/ /\ RowsBySKU(SKU) # {}
              /\ call' = [call EXCEPT ![p] = c]
           \/ /\ RowsBySKU(SKU) = {}
              /\ call' = [call EXCEPT ![p] = [c EXCEPT !.pc = "insert"]]
    /\ UNCHANGED << db, productinfo_id_seq, productimage_id_seq, media, ncalls,
                    lastInsert, lastWrite >>

\* The outcome of the INSERT once no transaction in progress holds its sku:
\* a unique violation, or the row with the values RETURNING id, sku yields
\* (row.Err() and row.Scan may still fail).
InsertProductInfoRow(p, c, id) ==
    LET row == InfoRow(id, c.SKU, c.pInfo)
    IN IF UniqueViolation(row.sku)
       THEN call' = [call EXCEPT ![p] = Return(c, "unique_violation")]
       ELSE \/ call' = [call EXCEPT ![p] = Return(c, "StoreError")]
            \/ call' = [call EXCEPT ![p] =
                   [c EXCEPT !.pc = "commit", !.snap = {}, !.tx.ins = {row},
                             !.pInfo.ID = row.id, !.pInfo.SKU = row.sku]]

\* INSERT INTO product_productinfo ... RETURNING id, sku
InsertProductInfoInsert(p) ==
    /\ call[p].op = "InsertProductInfo"
    /\ call[p].pc = "insert"
    /\ IF ~InfoFits(call[p].SKU, call[p].pInfo)
       THEN /\ call' = [call EXCEPT ![p] = Return(call[p], "value_too_long")]
            /\ UNCHANGED productinfo_id_seq
       ELSE /\ productinfo_id_seq < MaxId
            /\ productinfo_id_seq' = productinfo_id_seq + 1
            /\ IF UniqueWait(p, call[p].SKU)
               THEN call' = [call EXCEPT ![p] =
                        [call[p] EXCEPT !.pc = "wait",
                                        !.snap = {productinfo_id_seq'}]]
               ELSE InsertProductInfoRow(p, call[p], productinfo_id_seq')
    /\ UNCHANGED << db, productimage_id_seq, media, ncalls,
                    lastInsert, lastWrite >>

\* The INSERT resumes when the transactions it waited for are over.
InsertProductInfoWait(p) ==
    /\ call[p].op = "InsertProductInfo"
    /\ call[p].pc = "wait"
    /\ ~UniqueWait(p, call[p].SKU)
    /\ \E id \in call[p].snap : InsertProductInfoRow(p, call[p], id)
    /\ UNCHANGED << db, productinfo_id_seq, productimage_id_seq, media, ncalls,
                    lastInsert, lastWrite >>

\* A plausible slip: the INSERT run on DB instead of tx, so that a failure
\* after it leaves the row in the table.
InsertProductInfoCommitNoTx(p) ==
    /\ call[p].op = "InsertProductInfo"
    /\ call[p].pc = "commit"
    /\ product_productinfo' = product_productinfo \cup call[p].tx.ins
    /\ \/ /\ call' = [call EXCEPT ![p] = Return(call[p], "nil")]
          /\ lastInsert' = [arg |-> call[p].arg, ret |-> call[p].pInfo]
          /\ lastWrite' = NoWrite
       \/ /\ call' = [call EXCEPT ![p] = Return(call[p], "StoreError")]
          /\ UNCHANGED << lastInsert, lastWrite >>
    /\ UNCHANGED << product_productimage, productinfo_id_seq,
                    productimage_id_seq, media, ncalls >>

\* tx.Commit(), and the deferred tx.Rollback() when it fails
InsertProductInfoCommit(p) ==
    /\ call[p].op = "InsertProductInfo"
    /\ call[p].pc = "commit"
    /\ \/ /\ product_productinfo' = product_productinfo \cup call[p].tx.ins
          /\ call' = [call EXCEPT ![p] = Return(call[p], "nil")]
          /\ lastInsert' = [arg |-> call[p].arg, ret |-> call[p].pInfo]
          /\ lastWrite' = NoWrite
       \/ /\ UNCHANGED product_productinfo
          /\ call' = [call EXCEPT ![p] = Return(call[p], "StoreError")]
          /\ UNCHANGED << lastInsert, lastWrite >>
    /\ UNCHANGED << product_productimage, productinfo_id_seq,
                    productimage_id_seq, media, ncalls >>

InsertProductInfo(p) ==
    \/ InsertProductInfoBegin(p)
    \/ InsertProductInfoLoop(p)
    \/ InsertProductInfoInsert(p)
    \/ InsertProductInfoWait(p)
    \/ InsertProductInfoCommit(p)

(***************************************************************************)
(* model.UpdateProductInfoBySKU                                            *)
(***************************************************************************)
\* SKU values a caller passes to look a product up.
SkuArgs == SKUs

\* The row UPDATE product_productinfo SET name = $1, ..., account_user_id = $6
\* writes over row r.
UpdatedRow(r, pInfo) ==
    [r EXCEPT !.name = VarcharAssign(pInfo.Name, NameColumnLen),
              !.price = pInfo.Price,
              !.weight = pInfo.Weight,
              !.description = pInfo.Description,
              !.stock = pInfo.Stock,
              !.account_user_id = pInfo.UserID]

\* A plausible slip: the UPDATE without its WHERE clause.
UpdateTargetsNoWhere(SKU) == product_productinfo

\* The rows the UPDATE's clause WHERE sku = $7 selects.
UpdateTargets(SKU) == RowsBySKU(SKU)

\* DB.Begin()
UpdateProductInfoBySKUBegin(p) ==
    /\ Free(p)
    /\ ncalls < MaxCalls
    /\ ncalls' = ncalls + 1
    /\ \E pInfo \in ProductInfoInputs, SKU \in SkuArgs :
        LET a == [pInfo EXCEPT !.SKU = SKU]
            c == [Idle EXCEPT !.op = "UpdateProductInfoBySKU", !.arg = a,
                              !.pInfo = a]
        IN \/ call' = [call EXCEPT ![p] = [c EXCEPT !.pc = "update"]]
           \/ call' = [call EXCEPT ![p] = Return(c, "StoreError")]
    /\ UNCHANGED << db, productinfo_id_seq, productimage_id_seq, media,
                    lastInsert, lastWrite >>

\* A plausible slip: the UPDATE run with Exec, without RETURNING id and
\* row.Scan, so that an UPDATE of no row is not an error.
UpdateProductInfoBySKURowExec(p, c, targets) ==
    \/ call' = [call EXCEPT ![p] = Return(c, "StoreError")]
    \/ call' = [call EXCEPT ![p] =
           [c EXCEPT !.pc = "commit", !.snap = {},
                     !.tx.upd = { UpdatedRow(x, c.pInfo) : x \in targets }]]

\* The outcome of the UPDATE on the rows it targets once none of them is
\* locked: sql.ErrNoRows from row.Scan when no row is left, else the row is
\* written and stays locked until the transaction ends.
UpdateProductInfoBySKURow(p, c, targets) ==
    IF targets = {}
    THEN call' = [call EXCEPT ![p] = Return(c, "ErrNoRows")]
    ELSE \/ call' = [call EXCEPT ![p] = Return(c, "StoreError")]
         \/ \E r \in targets :
              call' = [call EXCEPT ![p] =
                  [c EXCEPT !.pc = "commit", !.snap = {},
                            !.tx.upd = { UpdatedRow(x, c.pInfo) : x \in targets },
                            !.pInfo.ID = r.id]]

\* UPDATE product_productinfo SET ... WHERE sku = $7 RETURNING id
UpdateProductInfoBySKUUpdate(p) ==
    /\ call[p].op = "UpdateProductInfoBySKU"
    /\ call[p].pc = "update"
    /\ LET targets == UpdateTargets(call[p].pInfo.SKU)
       IN IF ~InfoFits(call[p].pInfo.SKU, call[p].pInfo)
          THEN call' = [call EXCEPT ![p] = Return(call[p], "value_too_long")]
          ELSE IF \E r \in targets : r.id \in PendingInfoIds(p)
          THEN call' = [call EXCEPT ![p] =
                   [call[p] EXCEPT !.pc = "wait",
                                   !.snap = { r.id : r \in targets }]]
          ELSE UpdateProductInfoBySKURow(p, call[p], targets)
    /\ UNCHANGED << db, productinfo_id_seq, productimage_id_seq, media, ncalls,
                    lastInsert, lastWrite >>

\* A plausible slip: the UPDATE resumes on the rows it found before it
\* waited, not on their latest version.
UpdateProductInfoBySKUWaitStale(p) ==
    /\ call[p].op = "UpdateProductInfoBySKU"
    /\ call[p].pc = "wait"
    /\ call[p].snap \cap PendingInfoIds(p) = {}
    /\ UpdateProductInfoBySKURow(p, call[p],
           { InfoRow(id, call[p].pInfo.SKU, call[p].pInfo) :
               id \in call[p].snap })
    /\ UNCHANGED << db, productinfo_id_seq, productimage_id_seq, media, ncalls,
                    lastInsert, lastWrite >>

\* The UPDATE resumes on the latest version of the rows it waited for.
UpdateProductInfoBySKUWait(p) ==
    /\ call[p].op = "UpdateProductInfoBySKU"
    /\ call[p].pc = "wait"
    /\ call[p].snap \cap PendingInfoIds(p) = {}
    /\ UpdateProductInfoBySKURow(p, call[p],
           { r \in product_productinfo : r.id \in call[p].snap })
    /\ UNCHANGED << db, productinfo_id_seq, productimage_id_seq, media, ncalls,
                    lastInsert, lastWrite >>

\* tx.Commit(), and the deferred tx.Rollback() when it fails
UpdateProductInfoBySKUCommit(p) ==
    /\ call[p].op = "UpdateProductInfoBySKU"
    /\ call[p].pc = "commit"
    /\ \/ /\ product_productinfo' =
                { r \in product_productinfo :
                    r.id \notin { u.id : u \in call[p].tx.upd } }
                \cup call[p].tx.upd
          /\ call' = [call EXCEPT ![p] = Return(call[p], "nil")]
          /\ lastInsert' = NoInsert
          /\ lastWrite' = [op |-> "UpdateProductInfoBySKU",
                           arg |-> call[p].arg, found |-> TRUE]
       \/ /\ UNCHANGED product_productinfo
          /\ call' = [call EXCEPT ![p] = Return(call[p], "StoreError")]
          /\ UNCHANGED << lastInsert, lastWrite >>
    /\ UNCHANGED << product_productimage, productinfo_id_seq,
                    productimage_id_seq, media, ncalls >>

UpdateProductInfoBySKU(p) ==
    \/ UpdateProductInfoBySKUBegin(p)
    \/ UpdateProductInfoBySKUUpdate(p)
    \/ UpdateProductInfoBySKUWait(p)
    \/ UpdateProductInfoBySKUCommit(p)

(***************************************************************************)
(* model.DeleteProductBySKU                                                *)
(***************************************************************************)
\* Rows of product_productimage that reference one of the products ids.
ImagesOf(ids) ==
    { m \in product_productimage : m.product_productinfo_id \in ids }

\* DB.Begin()
DeleteProductBySKUBegin(p) ==
    /\ Free(p)
    /\ ncalls < MaxCalls
    /\ ncalls' = ncalls + 1
    /\ \E SKU \in SkuArgs :
        LET c == [Idle EXCEPT !.op = "DeleteProductBySKU", !.SKU = SKU]
        IN \/ call' = [call EXCEPT ![p] = [c EXCEPT !.pc = "delete"]]
           \/ call' = [call EXCEPT ![p] = Return(c, "StoreError")]
    /\ UNCHANGED << db, productinfo_id_seq, productimage_id_seq, media,
                    lastInsert, lastWrite >>

\* A plausible slip: the foreign key declared without ON DELETE CASCADE
\* (and not enforced), so that the image rows of a deleted product stay.
DeleteProductBySKUImagesNoCascade(c) == [c EXCEPT !.pc = "commit"]

\* ON DELETE CASCADE: the DELETE of the image rows that reference the deleted
\* products, once no other transaction holds one of them locked.
DeleteProductBySKUImages(c) ==
    [c EXCEPT !.pc = "commit",
              !.tx.imgDel = { m.id : m \in ImagesOf(c.tx.del) }]

\* A plausible slip: the DELETE followed by a check of RowsAffected that makes
\* a DELETE of no row an error.
DeleteProductBySKURowChecked(p, c, targets) ==
    LET d == [c EXCEPT !.snap = {}, !.tx.del = { r.id : r \in targets }]
    IN IF targets = {}
       THEN call' = [call EXCEPT ![p] = Return(c, "ErrNoRows")]
       ELSE \/ call' = [call EXCEPT ![p] = Return(c, "StoreError")]
            \/ /\ { m.id : m \in ImagesOf(d.tx.del) } \cap LockedImageIds(p) # {}
               /\ call' = [call EXCEPT ![p] = [d EXCEPT !.pc = "cascade"]]
            \/ /\ { m.id : m \in ImagesOf(d.tx.del) } \cap LockedImageIds(p) = {}
               /\ call' = [call EXCEPT ![p] = DeleteProductBySKUImages(d)]

\* The outcome of the DELETE on the rows it targets once none of them is
\* locked: the rows are locked, then the cascade runs or waits.
DeleteProductBySKURow(p, c, targets) ==
    LET d == [c EXCEPT !.snap = {}, !.tx.del = { r.id : r \in targets }]
    IN \/ call' = [call EXCEPT ![p] = Return(c, "StoreError")]
       \/ /\ { m.id : m \in ImagesOf(d.tx.del) } \cap LockedImageIds(p) # {}
          /\ call' = [call EXCEPT ![p] = [d EXCEPT !.pc = "cascade"]]
       \/ /\ { m.id : m \in ImagesOf(d.tx.del) } \cap LockedImageIds(p) = {}
          /\ call' = [call EXCEPT ![p] = DeleteProductBySKUImages(d)]

\* DELETE FROM product_productinfo WHERE sku = $1
DeleteProductBySKUDelete(p) ==
    /\ call[p].op = "DeleteProductBySKU"
    /\ call[p].pc = "delete"
    /\ LET targets == RowsBySKU(call[p].SKU)
       IN IF \E r \in targets :
                r.id \in PendingInfoIds(p) \cup KeySharedInfoIds(p)
          THEN call' = [call EXCEPT ![p] =
                   [call[p] EXCEPT !.pc = "wait",
                                   !.snap = { r.id : r \in targets }]]
          ELSE DeleteProductBySKURow(p, call[p], targets)
    /\ UNCHANGED << db, productinfo_id_seq, productimage_id_seq, media, ncalls,
                    lastInsert, lastWrite >>

\* The DELETE resumes on the latest version of the rows it waited for.
DeleteProductBySKUWait(p) ==
    /\ call[p].op = "DeleteProductBySKU"
    /\ call[p].pc = "wait"
    /\ call[p].snap \cap (PendingInfoIds(p) \cup KeySharedInfoIds(p)) = {}
    /\ DeleteProductBySKURow(p, call[p],
           { r \in product_productinfo : r.id \in call[p].snap })
    /\ UNCHANGED << db, productinfo_id_seq, productimage_id_seq, media, ncalls,
                    lastInsert, lastWrite >>

\* The cascade resumes when the image rows it waited for are unlocked.
DeleteProductBySKUCascade(p) ==
    /\ call[p].op = "DeleteProductBySKU"
    /\ call[p].pc = "cascade"
    /\ { m.id : m \in ImagesOf(call[p].tx.del) } \cap LockedImageIds(p) = {}
    /\ call' = [call EXCEPT ![p] = DeleteProductBySKUImages(call[p])]
    /\ UNCHANGED << db, productinfo_id_seq, productimage_id_seq, media, ncalls,
                    lastInsert, lastWrite >>

\* tx.Commit(), and the deferred tx.Rollback() when it fails
DeleteProductBySKUCommit(p) ==
    /\ call[p].op = "DeleteProductBySKU"
    /\ call[p].pc = "commit"
    /\ \/ /\ product_productinfo' =
                { r \in product_productinfo : r.id \notin call[p].tx.del }
          /\ product_productimage' =
                { m \in product_productimage : m.id \notin call[p].tx.imgDel }
          /\ call' = [call EXCEPT ![p] = Return(call[p], "nil")]
          /\ lastInsert' = NoInsert
          /\ lastWrite' = [op |-> "DeleteProductBySKU",
                           arg |-> [ZeroInfo EXCEPT !.SKU = call[p].SKU],
                           found |-> call[p].tx.del # {}]
       \/ /\ UNCHANGED db
          /\ call' = [call EXCEPT ![p] = Return(call[p], "StoreError")]
          /\ UNCHANGED << lastInsert, lastWrite >>
    /\ UNCHANGED << productinfo_id_seq, productimage_id_seq, media, ncalls >>

DeleteProductBySKU(p) ==
    \/ DeleteProductBySKUBegin(p)
    \/ DeleteProductBySKUDelete(p)
    \/ DeleteProductBySKUWait(p)
    \/ DeleteProductBySKUCascade(p)
    \/ DeleteProductBySKUCommit(p)

(***************************************************************************)
(* model.InsertProductImages and model.SaveProductImage                    *)
(***************************************************************************)
\* The file names of the multipart file headers a caller passes.
FileHeaderInputs == { << "f" >>, << "g", "h" >> }

\* model.SaveProductImage: the path of the file it creates, made of the
\* clock's reading and the uploaded file's name.
SaveProductImage(fileHeader) ==
    << "product-image/", Cardinality(media) + 1, "-", fileHeader >>

\* DB.Begin(); pInfo is a ProductInfo an earlier call returned.
InsertProductImagesBegin(p) ==
    /\ Free(p)
    /\ ncalls < MaxCalls
    /\ ncalls' = ncalls + 1
    /\ \E id \in 1..productinfo_id_seq, fileHeaders \in FileHeaderInputs :
        LET a == [ZeroInfo EXCEPT !.ID = id]
            c == [Idle EXCEPT !.op = "InsertProductImages", !.arg = a,
                              !.pInfo = a, !.fileHeaders = fileHeaders]
        IN \/ call' = [call EXCEPT ![p] = [c EXCEPT !.pc = "delete"]]
           \/ call' = [call EXCEPT ![p] = Return(c, "StoreError")]
    /\ UNCHANGED << db, productinfo_id_seq, productimage_id_seq, media,
                    lastInsert, lastWrite >>

\* The outcome of the DELETE on the image rows it targets once none of them
\* is locked.
InsertProductImagesRows(p, c, targets) ==
    \/ call' = [call EXCEPT ![p] = Return(c, "StoreError")]
    \/ call' = [call EXCEPT ![p] =
           [c EXCEPT !.pc = IF c.fileHeaders = << >> THEN "commit" ELSE "file",
                     !.i = 1, !.snap = {}, !.tx.imgDel = targets]]

\* DELETE FROM product_productimage WHERE product_productinfo_id = $1
InsertProductImagesDelete(p) ==
    /\ call[p].op = "InsertProductImages"
    /\ call[p].pc = "delete"
    /\ LET targets == { m.id : m \in ImagesOf({call[p].pInfo.ID}) }
       IN IF targets \cap LockedImageIds(p) # {}
          THEN call' = [call EXCEPT ![p] =
                   [call[p] EXCEPT !.pc = "wait", !.snap = targets]]
          ELSE InsertProductImagesRows(p, call[p], targets)
    /\ UNCHANGED << db, productinfo_id_seq, productimage_id_seq, media, ncalls,
                    lastInsert, lastWrite >>

\* The DELETE resumes on the rows of its snapshot that are still there.
InsertProductImagesWait(p) ==
    /\ call[p].op = "InsertProductImages"
    /\ call[p].pc = "wait"
    /\ call[p].snap \cap LockedImageIds(p) = {}
    /\ InsertProductImagesRows(p, call[p],
           call[p].snap \cap { m.id : m \in product_productimage })
    /\ UNCHANGED << db, productinfo_id_seq, productimage_id_seq, media, ncalls,
                    lastInsert, lastWrite >>

\* A plausible slip: column product_productinfo_id declared without its
\* foreign key constraint.
InsertProductImagesRowNoFk(p, c, id) ==
    \/ call' = [call EXCEPT ![p] = Return(c, "StoreError")]
    \/ call' = [call EXCEPT ![p] =
           [c EXCEPT !.pc = IF c.i = Len(c.fileHeaders)
                            THEN "commit" ELSE "file",
                     !.i = c.i + 1,
                     !.snap = {},
                     !.tx.imgIns = @ \cup
                         {[id |-> id,
                           image_path |-> c.imagePath,
                           product_productinfo_id |-> c.pInfo.ID]}]]

\* The outcome of INSERT INTO product_productimage once the referenced
\* product is not being deleted: the foreign key fk_product_productinfo is
\* violated when the product is not there, else the row is inserted.
InsertProductImagesRow(p, c, id) ==
    IF \A r \in product_productinfo : r.id # c.pInfo.ID
    THEN call' = [call EXCEPT ![p] = Return(c, "foreign_key_violation")]
    ELSE \/ call' = [call EXCEPT ![p] = Return(c, "StoreError")]
         \/ call' = [call EXCEPT ![p] =
                [c EXCEPT !.pc = IF c.i = Len(c.fileHeaders)
                                 THEN "commit" ELSE "file",
                          !.i = c.i + 1,
                          !.snap = {},
                          !.tx.imgIns = @ \cup
                              {[id |-> id,
                                image_path |-> c.imagePath,
                                product_productinfo_id |-> c.pInfo.ID]}]]

\* One iteration of the loop over fileHeaders: SaveProductImage, then
\* INSERT INTO product_productimage(image_path, product_productinfo_id).
InsertProductImagesFile(p) ==
    /\ call[p].op = "InsertProductImages"
    /\ call[p].pc = "file"
    /\ LET imagePath == SaveProductImage(call[p].fileHeaders[call[p].i])
           c == [call[p] EXCEPT !.imagePath = imagePath]
       IN \/ /\ call' = [call EXCEPT ![p] = Return(call[p], "StoreError")]
             /\ media' \in { media, media \cup {imagePath} }
             /\ UNCHANGED productimage_id_seq
          \/ /\ media' = media \cup {imagePath}
             /\ productimage_id_seq < MaxImageId
             /\ productimage_id_seq' = productimage_id_seq + 1
             /\ IF c.pInfo.ID \in DeletingInfoIds(p)
                THEN call' = [call EXCEPT ![p] =
                         [c EXCEPT !.pc = "fkwait",
                                   !.snap = {productimage_id_seq'}]]
                ELSE InsertProductImagesRow(p, c, productimage_id_seq')
    /\ UNCHANGED << db, productinfo_id_seq, ncalls,
                    lastInsert, lastWrite >>

\* The INSERT resumes when the DELETE of the referenced product is over.
InsertProductImagesFkWait(p) ==
    /\ call[p].op = "InsertProductImages"
    /\ call[p].pc = "fkwait"
    /\ call[p].pInfo.ID \notin DeletingInfoIds(p)
    /\ \E id \in call[p].snap : InsertProductImagesRow(p, call[p], id)
    /\ UNCHANGED << db, productinfo_id_seq, productimage_id_seq, media, ncalls,
                    lastInsert, lastWrite >>

\* A plausible slip: the statements run on DB instead of tx, so that a
\* failure after them leaves their changes in the table.
InsertProductImagesCommitNoTx(p) ==
    /\ call[p].op = "InsertProductImages"
    /\ call[p].pc = "commit"
    /\ product_productimage' =
          { m \in product_productimage : m.id \notin call[p].tx.imgDel }
          \cup call[p].tx.imgIns
    /\ \/ /\ call' = [call EXCEPT ![p] = Return(call[p], "nil")]
          /\ lastInsert' = NoInsert
          /\ lastWrite' = NoWrite
       \/ /\ call' = [call EXCEPT ![p] = Return(call[p], "StoreError")]
          /\ UNCHANGED << lastInsert, lastWrite >>
    /\ UNCHANGED << product_productinfo, productinfo_id_seq,
                    productimage_id_seq, media, ncalls >>

\* tx.Commit(), and the deferred tx.Rollback() when it fails
InsertProductImagesCommit(p) ==
    /\ call[p].op = "InsertProductImages"
    /\ call[p].pc = "commit"
    /\ \/ /\ product_productimage' =
                { m \in product_productimage : m.id \notin call[p].tx.imgDel }
                \cup call[p].tx.imgIns
          /\ call' = [call EXCEPT ![p] = Return(call[p], "nil")]
          /\ lastInsert' = NoInsert
          /\ lastWrite' = NoWrite
       \/ /\ UNCHANGED product_productimage
          /\ call' = [call EXCEPT ![p] = Return(call[p], "StoreError")]
          /\ UNCHANGED << lastInsert, lastWrite >>
    /\ UNCHANGED << product_productinfo, productinfo_id_seq,
                    productimage_id_seq, media, ncalls >>

InsertProductImages(p) ==
    \/ InsertProductImagesBegin(p)
    \/ InsertProductImagesDelete(p)
    \/ InsertProductImagesWait(p)
    \/ InsertProductImagesFile(p)
    \/ InsertProductImagesFkWait(p)
    \/ InsertProductImagesCommit(p)

(***************************************************************************)
(* model.GetProducts and model.GetProductBySKU                             *)
(***************************************************************************)
\* The search terms of the requests.  A term is spliced into the text of the
\* query between '% and %', so its characters % and _ are wildcards of the
\* ILIKE pattern and a quote ends the SQL string literal.
SearchInputs == { << >>, << "a", "B" >>, << "_" >>, << "%" >>, << "'" >> }

\* The user ids of the filters of the requests (0: no filter).
UserIDInputs == { 0, 1, 2 }

\* ILIKE compares letters without regard to case.
Lower(c) ==
    IF \E k \in 37..62 : base[k] = c
    THEN base[(CHOOSE k \in 37..62 : base[k] = c) - 26]
    ELSE c

\* s[i..] ILIKE pat[j..]: % matches any run of characters (the rest of the
\* pattern then matches from some later position k), _ any one character.
RECURSIVE ILikeFrom(_, _, _, _)
ILikeFrom(s, i, pat, j) ==
    IF j > Len(pat) THEN i > Len(s)
    ELSE IF pat[j] = "%"
    THEN \E k \in i..(Len(s) + 1) : ILikeFrom(s, k, pat, j + 1)
    ELSE /\ i <= Len(s)
         /\ pat[j] = "_" \/ Lower(pat[j]) = Lower(s[i])
         /\ ILikeFrom(s, i + 1, pat, j + 1)

ILike(s, pat) == ILikeFrom(s, 1, pat, 1)

\* strconv.Itoa, for the user ids of the model.
Itoa(i) == base[i + 1]

\* The text GetProducts appends to the query after the word WHERE, as the
\* server's lexer cuts it: the words and signs of the code's string constants
\* are one element each, the characters of search follow as they are.  A
\* search term that holds SQL of its own has one element per word of it.
QueryText(filter, search) ==
    LET like == << "(", "name", "ILIKE", "'", "%" >> \o search
                \o << "%", "'", "OR", "description", "ILIKE", "'", "%" >>
                \o search \o << "%", "'", ")" >>
    IN IF filter.UserID # 0
       THEN << "account_user_id", "=", Itoa(filter.UserID) >>
            \o (IF search # << >> THEN << "AND" >> \o like ELSE << >>)
       ELSE IF search # << >> THEN like ELSE << >>

\* The position of the quote that ends the string literal whose characters
\* start at position k of text (two quotes in a row stand for a quote inside
\* the literal), or 0 when the literal is not ended.
RECURSIVE LiteralEnd(_, _)
LiteralEnd(text, k) ==
    IF k > Len(text) THEN 0
    ELSE IF text[k] # "'" THEN LiteralEnd(text, k + 1)
    ELSE IF k < Len(text) /\ text[k + 1] = "'" THEN LiteralEnd(text, k + 2)
    ELSE k

\* The server reads the text from position j as a condition on row r:
\*     expr ::= term { OR term }      term ::= factor { AND factor }
\*     factor ::= ( expr ) | account_user_id = number
\*              | name ILIKE literal | description ILIKE literal
\* ok tells whether the text is one, val its value on r and pos the position
\* after it.
SyntaxError == [ok |-> FALSE, val |-> FALSE, pos |-> 0]

RECURSIVE QueryExpr(_, _, _)
RECURSIVE QueryTerm(_, _, _)
RECURSIVE QueryFactor(_, _, _)

QueryFactor(text, r, j) ==
    IF j > Len(text) THEN SyntaxError
    ELSE IF text[j] = "("
    THEN LET e == QueryExpr(text, r, j + 1)
         IN IF e.ok /\ e.pos <= Len(text) /\ text[e.pos] = ")"
            THEN [e EXCEPT !.pos = e.pos + 1]
            ELSE SyntaxError
    ELSE IF text[j] = "account_user_id"
    THEN IF j + 2 <= Len(text) /\ text[j + 1] = "="
            /\ \E k \in 1..10 : text[j + 2] = base[k]
         THEN [ok |-> TRUE, val |-> Itoa(r.account_user_id) = text[j + 2],
               pos |-> j + 3]
         ELSE SyntaxError
    ELSE IF text[j] \in { "name", "description" }
    THEN IF j + 2 <= Len(text) /\ text[j + 1] = "ILIKE" /\ text[j + 2] = "'"
            /\ LiteralEnd(text, j + 3) # 0
         THEN LET k == LiteralEnd(text, j + 3)
                  pat == SubSeq(text, j + 3, k - 1)
              IN [ok |-> TRUE,
                  val |-> ILike(IF text[j] = "name" THEN r.name
                                ELSE r.description, pat),
                  pos |-> k + 1]
         ELSE SyntaxError
    ELSE SyntaxError

QueryTerm(text, r, j) ==
    LET f == QueryFactor(text, r, j)
    IN IF f.ok /\ f.pos <= Len(text) /\ text[f.pos] = "AND"
       THEN LET t == QueryTerm(text, r, f.pos + 1)
            IN [ok |-> t.ok, val |-> f.val /\ t.val, pos |-> t.pos]
       ELSE f

QueryExpr(text, r, j) ==
    LET t == QueryTerm(text, r, j)
    IN IF t.ok /\ t.pos <= Len(text) /\ text[t.pos] = "OR"
       THEN LET e == QueryExpr(text, r, t.pos + 1)
            IN [ok |-> e.ok, val |-> t.val \/ e.val, pos |-> e.pos]
       ELSE t

\* The condition the text stands for, when it is one from end to end.
QueryCondition(text, r) ==
    LET e == QueryExpr(text, r, 1)
    IN IF e.ok /\ e.pos = Len(text) + 1 THEN e ELSE SyntaxError

\* Whether the server accepts the text of the query GetProducts builds: a
\* quote in the search term ends the string literal it is spliced into, and
\* the rest of the term is read as SQL.
QueryParses(search) ==
    \/ search = << >>
    \/ QueryCondition(QueryText(ZeroInfo, search),
                      InfoRow(0, << >>, ZeroInfo)).ok

\* The WHERE clause GetProducts builds from filter.UserID and search.
QueryWhere(r, filter, search) ==
    \/ QueryText(filter, search) = << >>
    \/ QueryCondition(QueryText(filter, search), r).val

\* ORDER BY id
RECURSIVE OrderById(_)
OrderById(rows) ==
    IF rows = {} THEN << >>
    ELSE LET r == CHOOSE x \in rows : \A y \in rows : x.id <= y.id
         IN << r >> \o OrderById(rows \ {r})

\* rows.Scan(&p.ProductInfo.ID, &p.ProductInfo.SKU, ...)
ScanInfo(r) ==
    [ID |-> r.id, SKU |-> r.sku, Name |-> r.name, Price |-> r.price,
     Weight |-> r.weight, Description |-> r.description, Stock |-> r.stock,
     UserID |-> r.account_user_id]

\* A plausible slip: the image query without its WHERE clause.
ScanImagesNoWhere(id) ==
    { [ID |-> m.id, ImagePath |-> m.image_path] : m \in product_productimage }

\* SELECT id, image_path FROM product_productimage
\* WHERE product_productinfo_id = $1, scanned into ProductImages (the rows
\* come in no particular order).
ScanImages(id) ==
    { [ID |-> m.id, ImagePath |-> m.image_path] : m \in ImagesOf({id}) }

Product(pInfo, pImages) == [ProductInfo |-> pInfo, ProductImages |-> pImages]

\* DB.Query(q): the product info rows
GetProductsQuery(p) ==
    /\ Free(p)
    /\ ncalls < MaxCalls
    /\ ncalls' = ncalls + 1
    /\ \E UserID \in UserIDInputs, search \in SearchInputs :
        LET filter == [ZeroInfo EXCEPT !.UserID = UserID]
            c == [Idle EXCEPT !.op = "GetProducts", !.arg = filter,
                              !.pInfo = filter, !.search = search]
            rows == OrderById({ r \in product_productinfo :
                                  QueryWhere(r, filter, search) })
        IN IF ~QueryParses(search)
           THEN call' = [call EXCEPT ![p] = Return(c, "QueryError")]
           ELSE \/ call' = [call EXCEPT ![p] = Return(c, "StoreError")]
                \/ call' = [call EXCEPT ![p] =
                       [c EXCEPT !.pc = IF rows = << >> THEN "done" ELSE "images",
                                 !.rows = rows, !.i = 1]]
    /\ UNCHANGED << db, productinfo_id_seq, productimage_id_seq, media,
                    lastInsert, lastWrite >>

\* One iteration of the loop over the product info rows: the row is scanned,
\* its image rows are queried and the product is appended to sop.
GetProductsImages(p) ==
    /\ call[p].op = "GetProducts"
    /\ call[p].pc = "images"
    /\ LET c == call[p]
           pInfo == ScanInfo(c.rows[c.i])
       IN \/ call' = [call EXCEPT ![p] = [Return(c, "StoreError") EXCEPT !.sop = << >>]]
          \/ call' = [call EXCEPT ![p] =
                 [c EXCEPT !.pc = IF c.i = Len(c.rows) THEN "done" ELSE "images",
                           !.i = c.i + 1,
                           !.sop = Append(@, Product(pInfo, ScanImages(pInfo.ID)))]]
    /\ UNCHANGED << db, productinfo_id_seq, productimage_id_seq, media, ncalls,
                    lastInsert, lastWrite >>

GetProducts(p) ==
    \/ GetProductsQuery(p)
    \/ GetProductsImages(p)

\* DB.QueryRow(SELECT ... WHERE sku = $1) and row.Scan
GetProductBySKUQuery(p) ==
    /\ Free(p)
    /\ ncalls < MaxCalls
    /\ ncalls' = ncalls + 1
    /\ \E SKU \in SkuArgs :
        LET c == [Idle EXCEPT !.op = "GetProductBySKU", !.SKU = SKU,
                              !.after = IF lastInsert.ret.SKU = SKU
                                        THEN lastInsert ELSE NoInsert]
        IN \/ call' = [call EXCEPT ![p] = Return(c, "StoreError")]
           \/ /\ RowsBySKU(SKU) = {}
              /\ call' = [call EXCEPT ![p] = Return(c, "ErrNoRows")]
           \/ \E r \in RowsBySKU(SKU) :
                call' = [call EXCEPT ![p] =
                    [c EXCEPT !.pc = "images",
                              !.sop = << Product(ScanInfo(r), {}) >>]]
    /\ UNCHANGED << db, productinfo_id_seq, productimage_id_seq, media,
                    lastInsert, lastWrite >>

\* DB.Query of the image rows and the loop that scans them
GetProductBySKUImages(p) ==
    /\ call[p].op = "GetProductBySKU"
    /\ call[p].pc = "images"
    /\ LET c == call[p]
           pInfo == c.sop[1].ProductInfo
       IN \/ call' = [call EXCEPT ![p] = [Return(c, "StoreError") EXCEPT !.sop = << >>]]
          \/ call' = [call EXCEPT ![p] =
                 [Return(c, "nil") EXCEPT
                     !.sop = << Product(pInfo, ScanImages(pInfo.ID)) >>]]
    /\ UNCHANGED << db, productinfo_id_seq, productimage_id_seq, media, ncalls,
                    lastInsert, lastWrite >>

GetProductBySKU(p) ==
    \/ GetProductBySKUQuery(p)
    \/ GetProductBySKUImages(p)

(***************************************************************************)
(* validator.IsProductInfoValid                                            *)
(***************************************************************************)
\* The characters strings.TrimSpace removes, among those of the model.
WhiteSpace == { " ", "\t", "\n", "\r", "\f" }

RECURSIVE TrimLeft(_)
TrimLeft(s) ==
    IF s # << >> /\ s[1] \in WhiteSpace THEN TrimLeft(Tail(s)) ELSE s

RECURSIVE TrimRight(_)
TrimRight(s) ==
    IF s # << >> /\ s[Len(s)] \in WhiteSpace
    THEN TrimRight(SubSeq(s, 1, Len(s) - 1)) ELSE s

\* strings.TrimSpace: s without its leading and trailing white space.
TrimSpace(s) == TrimRight(TrimLeft(s))

\* A plausible slip: the name compared with "" without strings.TrimSpace.
IsProductInfoValidNoTrim(pi) ==
    IF pi.Name = << >> THEN "name empty/not found"
    ELSE IF pi.Price = 0 THEN "price empty/not found"
    ELSE IF pi.Weight = 0 THEN "weight empty/not found"
    ELSE "nil"

\* validator.IsProductInfoValid: the text of the error it returns, or "nil".
IsProductInfoValid(pi) ==
    IF TrimSpace(pi.Name) = << >> THEN "name empty/not found"
    ELSE IF pi.Price = 0 THEN "price empty/not found"
    ELSE IF pi.Weight = 0 THEN "weight empty/not found"
    ELSE "nil"

\* model.ProductInfo values the validator is called with.
ValidatorInputs ==
    { [ID |-> o.ID, SKU |-> o.SKU, Name |-> name, Price |-> price,
       Weight |-> weight, Description |-> o.Description, Stock |-> o.Stock,
       UserID |-> o.UserID] :
         name \in { << >>, << " " >>, << "\t", " ", "\n" >>,
                    << " ", "A", " " >>, << "A", " ", "b" >> },
         price \in { 0, 15, -5 },
         weight \in { 0, 2, -1 },
         o \in { ZeroInfo,
                 [ZeroInfo EXCEPT !.ID = 9, !.SKU = InitSKU(1),
                                  !.Description = << "a" >>, !.Stock = -1,
                                  !.UserID = 2] } }

\* One call of the validator; err holds what it returns.
IsProductInfoValidCall(p) ==
    /\ \E pi \in ValidatorInputs :
          call' = [call EXCEPT ![p] =
              [Idle EXCEPT !.op = "IsProductInfoValid", !.arg = pi,
                           !.pInfo = pi, !.err = IsProductInfoValid(pi)]]
    /\ UNCHANGED << db, productinfo_id_seq, productimage_id_seq, media, ncalls,
                    lastInsert, lastWrite >>

(***************************************************************************)
(* api.AddProductHandler and api.UpdateProductHandler.  A handler runs    *)
(* its store calls one after the other, each in a transaction of its own.  *)
(***************************************************************************)
\* The middleware.User values that AuthorizationMiddleware leaves in
\* c.Locals("user").
Users ==
    { [ID |-> 1, Role |-> "seller"], [ID |-> 3, Role |-> "buyer"] }

\* The model.ProductInfo values c.BodyParser reads from the forms.
FormInputs ==
    { [ZeroInfo EXCEPT !.Name = << "A", "b" >>, !.Price = 15, !.Weight = 2,
                       !.Stock = 5, !.UserID = 2],
      [ZeroInfo EXCEPT !.Name = << "b", "c" >>, !.Price = -5, !.Weight = 2,
                       !.UserID = 1],
      [ZeroInfo EXCEPT !.Name = << " " >>],
      [ZeroInfo EXCEPT !.Name = << "A", "b" >>, !.Weight = 2],
      [ZeroInfo EXCEPT !.Name = << "A", "b" >>, !.Price = 15] }

\* The bodies of the requests: whether c.MultipartForm can read the body, and
\* the file names under "product_images".
BodyInputs ==
    { [multipart |-> FALSE, files |-> << >>],
      [multipart |-> TRUE, files |-> << >>],
      [multipart |-> TRUE, files |-> << "f" >>] }

\* The values of the query parameter sku.
SkuQueryInputs == SkuArgs \cup { << " " >> }

\* c.Status(status).JSON(...): the handler of c's request responds.
Respond(c, status, message) ==
    [c EXCEPT !.op = c.req.handler, !.pc = "done", !.status = status,
              !.err = message]

\* The handler's store call op has returned and the handler goes on.
HandlerResumes(p, handler, op) ==
    /\ call[p].req.handler = handler
    /\ call[p].op = op
    /\ call[p].pc = "done"
    /\ call[p].status = 0

\* After the product info step: its error is answered 500; else
\* c.MultipartForm(), and model.InsertProductImages when the form has files.
HandlerImages(p, handler, op, status) ==
    /\ HandlerResumes(p, handler, op)
    /\ LET c == call[p]
           d == [Idle EXCEPT !.op = "InsertProductImages", !.arg = c.pInfo,
                             !.pInfo = c.pInfo, !.fileHeaders = c.req.files,
                             !.req = c.req]
       IN IF c.err # "nil"
          THEN call' = [call EXCEPT ![p] = Respond(c, 500, c.err)]
          ELSE IF ~c.req.multipart
          THEN call' = [call EXCEPT ![p] = Respond(c, 500, "MultipartForm")]
          ELSE IF Len(c.req.files) = 0
          THEN call' = [call EXCEPT ![p] = Respond(c, status, "nil")]
          ELSE \/ call' = [call EXCEPT ![p] = [d EXCEPT !.pc = "delete"]]
               \/ call' = [call EXCEPT ![p] = Return(d, "StoreError")]
    /\ UNCHANGED << db, productinfo_id_seq, productimage_id_seq, media, ncalls,
                    lastInsert, lastWrite >>

\* After model.InsertProductImages: its error is answered 500, else the
\* product info is.
HandlerResponds(p, handler, status) ==
    /\ HandlerResumes(p, handler, "InsertProductImages")
    /\ call' = [call EXCEPT ![p] =
           IF call[p].err # "nil" THEN Respond(call[p], 500, call[p].err)
           ELSE Respond(call[p], status, "nil")]
    /\ UNCHANGED << db, productinfo_id_seq, productimage_id_seq, media, ncalls,
                    lastInsert, lastWrite >>

\* A plausible slip: the call of validator.IsProductInfoValid left out.
AddProductHandlerRequestNoValidation(p) ==
    /\ Free(p)
    /\ ncalls < MaxCalls
    /\ ncalls' = ncalls + 1
    /\ \E u \in Users, form \in FormInputs, body \in BodyInputs :
        LET req == [NoReq EXCEPT !.handler = "AddProductHandler", !.u = u,
                                 !.form = form, !.multipart = body.multipart,
                                 !.files = body.files, !.db = db]
            r == [Idle EXCEPT !.req = req]
            pInfo == [form EXCEPT !.UserID = u.ID]
            c == [r EXCEPT !.op = "InsertProductInfo", !.arg = pInfo,
                           !.pInfo = pInfo]
        IN IF u.Role # "seller"
           THEN call' = [call EXCEPT ![p] = Respond(r, 403, "Forbidden")]
           ELSE \/ call' = [call EXCEPT ![p] = Respond(r, 500, "BodyParser")]
                \/ call' = [call EXCEPT ![p] = [c EXCEPT !.pc = "loop"]]
                \/ call' = [call EXCEPT ![p] = Return(c, "StoreError")]
    /\ UNCHANGED << db, productinfo_id_seq, productimage_id_seq, media,
                    lastInsert, lastWrite >>

\* AddProductHandler up to its call of model.InsertProductInfo: the role
\* check, c.BodyParser, the validation, pInfo.UserID = u.ID and DB.Begin().
AddProductHandlerRequest(p) ==
    /\ Free(p)
    /\ ncalls < MaxCalls
    /\ ncalls' = ncalls + 1
    /\ \E u \in Users, form \in FormInputs, body \in BodyInputs :
        LET req == [NoReq EXCEPT !.handler = "AddProductHandler", !.u = u,
                                 !.form = form, !.multipart = body.multipart,
                                 !.files = body.files, !.db = db]
            r == [Idle EXCEPT !.req = req]
            pInfo == [form EXCEPT !.UserID = u.ID]
            c == [r EXCEPT !.op = "InsertProductInfo", !.arg = pInfo,
                           !.pInfo = pInfo]
        IN IF u.Role # "seller"
           THEN call' = [call EXCEPT ![p] = Respond(r, 403, "Forbidden")]
           ELSE \/ call' = [call EXCEPT ![p] = Respond(r, 500, "BodyParser")]
                \/ IF IsProductInfoValid(form) # "nil"
                   THEN call' = [call EXCEPT ![p] =
                            Respond(r, 400, IsProductInfoValid(form))]
                   ELSE \/ call' = [call EXCEPT ![p] = [c EXCEPT !.pc = "loop"]]
                        \/ call' = [call EXCEPT ![p] = Return(c, "StoreError")]
    /\ UNCHANGED << db, productinfo_id_seq, productimage_id_seq, media,
                    lastInsert, lastWrite >>

AddProductHandler(p) ==
    \/ AddProductHandlerRequest(p)
    \/ HandlerImages(p, "AddProductHandler", "InsertProductInfo", 201)
    \/ HandlerResponds(p, "AddProductHandler", 201)

\* UpdateProductHandler up to its call of model.UpdateProductInfoBySKU: the
\* role check, c.BodyParser, the validation, the query parameter sku,
\* pInfo.UserID = u.ID, pInfo.SKU = SKU and DB.Begin().
UpdateProductHandlerRequest(p) ==
    /\ Free(p)
    /\ ncalls < MaxCalls
    /\ ncalls' = ncalls + 1
    /\ \E u \in Users, form \in FormInputs, body \in BodyInputs,
          SKU \in SkuQueryInputs :
        LET req == [NoReq EXCEPT !.handler = "UpdateProductHandler", !.u = u,
                                 !.form = form, !.SKU = SKU,
                                 !.multipart = body.multipart,
                                 !.files = body.files, !.db = db]
            r == [Idle EXCEPT !.req = req]
            pInfo == [form EXCEPT !.UserID = u.ID, !.SKU = SKU]
            c == [r EXCEPT !.op = "UpdateProductInfoBySKU", !.arg = pInfo,
                           !.pInfo = pInfo]
        IN IF u.Role # "seller"
           THEN call' = [call EXCEPT ![p] = Respond(r, 403, "Forbidden")]
           ELSE \/ call' = [call EXCEPT ![p] = Respond(r, 500, "BodyParser")]
                \/ IF IsProductInfoValid(form) # "nil"
                   THEN call' = [call EXCEPT ![p] =
                            Respond(r, 400, IsProductInfoValid(form))]
                   ELSE IF TrimSpace(SKU) = << >>
                   THEN call' = [call EXCEPT ![p] =
                            Respond(r, 400, "parameter 'sku' empty/not found")]
                   ELSE \/ call' = [call EXCEPT ![p] = [c EXCEPT !.pc = "update"]]
                        \/ call' = [call EXCEPT ![p] = Return(c, "StoreError")]
    /\ UNCHANGED << db, productinfo_id_seq, productimage_id_seq, media,
                    lastInsert, lastWrite >>

UpdateProductHandler(p) ==
    \/ UpdateProductHandlerRequest(p)
    \/ HandlerImages(p, "UpdateProductHandler", "UpdateProductInfoBySKU", 200)
    \/ HandlerResponds(p, "UpdateProductHandler", 200)

(***************************************************************************)
(* api.GetProductsHandler, api.GetProductsByUserIDHandler,                 *)
(* api.GetProductHandler, api.DeleteProductHandler and                     *)
(* api.DecreaseStockHandler.                                               *)
(***************************************************************************)
\* A search term that ends the string literal it is spliced into and goes on
\* in SQL:  ') OR (name ILIKE '
InjectedSearch == << "'", ")", "OR", "(", "name", "ILIKE", "'" >>

\* The values of the query parameter search.
SearchQueryInputs == { << >>, << "b" >>, InjectedSearch }

\* The values of the form field qty.
QtyInputs == { 2, 7 }

\* A plausible slip: the comparison of u.Role with the role left out.
RoleDeniedNever(u, role) == FALSE

\* if u.Role != role: the handler answers 403.
RoleDenied(u, role) == u.Role # role

\* After the handler's last store call op: its error is answered 500, else
\* the handler answers 200.
HandlerAnswers(p, handler, op) ==
    /\ HandlerResumes(p, handler, op)
    /\ call' = [call EXCEPT ![p] =
           IF call[p].err # "nil" THEN Respond(call[p], 500, call[p].err)
           ELSE Respond(call[p], 200, "nil")]
    /\ UNCHANGED << db, productinfo_id_seq, productimage_id_seq, media, ncalls,
                    lastInsert, lastWrite >>

\* A handler up to the first query of its call model.GetProducts(a.DB,
\* filter, c.Query("search")): the role check and DB.Query(q).  own tells
\* whether the filter is model.ProductInfo{UserID: u.ID}.
HandlerGetProducts(p, handler, role, own) ==
    /\ Free(p)
    /\ ncalls < MaxCalls
    /\ ncalls' = ncalls + 1
    /\ \E u \in Users, search \in SearchQueryInputs :
        LET req == [NoReq EXCEPT !.handler = handler, !.u = u,
                                 !.search = search, !.db = db]
            r == [Idle EXCEPT !.req = req]
            filter == IF own THEN [ZeroInfo EXCEPT !.UserID = u.ID]
                      ELSE ZeroInfo
            c == [r EXCEPT !.op = "GetProducts", !.arg = filter,
                           !.pInfo = filter, !.search = search]
            rows == OrderById({ x \in product_productinfo :
                                  QueryWhere(x, filter, search) })
        IN IF RoleDenied(u, role)
           THEN call' = [call EXCEPT ![p] = Respond(r, 403, "Forbidden")]
           ELSE IF ~QueryParses(search)
           THEN call' = [call EXCEPT ![p] = Return(c, "QueryError")]
           ELSE \/ call' = [call EXCEPT ![p] = Return(c, "StoreError")]
                \/ call' = [call EXCEPT ![p] =
                       [c EXCEPT !.pc = IF rows = << >> THEN "done" ELSE "images",
                                 !.rows = rows, !.i = 1]]
    /\ UNCHANGED << db, productinfo_id_seq, productimage_id_seq, media,
                    lastInsert, lastWrite >>

GetProductsHandler(p) ==
    \/ HandlerGetProducts(p, "GetProductsHandler", "buyer", FALSE)
    \/ HandlerAnswers(p, "GetProductsHandler", "GetProducts")

GetProductsByUserIDHandler(p) ==
    \/ HandlerGetProducts(p, "GetProductsByUserIDHandler", "seller", TRUE)
    \/ HandlerAnswers(p, "GetProductsByUserIDHandler", "GetProducts")

\* The first query of model.GetProductBySKU(a.DB, SKU) in a handler:
\* DB.QueryRow(SELECT ... WHERE sku = $1) and row.Scan.
HandlerGetProductBySKU(p, r, SKU) ==
    LET c == [r EXCEPT !.op = "GetProductBySKU", !.SKU = SKU]
    IN \/ call' = [call EXCEPT ![p] = Return(c, "StoreError")]
       \/ /\ RowsBySKU(SKU) = {}
          /\ call' = [call EXCEPT ![p] = Return(c, "ErrNoRows")]
       \/ \E x \in RowsBySKU(SKU) :
            call' = [call EXCEPT ![p] =
                [c EXCEPT !.pc = "images",
                          !.sop = << Product(ScanInfo(x), {}) >>]]

\* GetProductHandler up to the first query of model.GetProductBySKU: any
\* role passes, then the query parameter sku.
GetProductHandlerRequest(p) ==
    /\ Free(p)
    /\ ncalls < MaxCalls
    /\ ncalls' = ncalls + 1
    /\ \E u \in Users, SKU \in SkuQueryInputs :
        LET req == [NoReq EXCEPT !.handler = "GetProductHandler", !.u = u,
                                 !.SKU = SKU, !.db = db]
            r == [Idle EXCEPT !.req = req]
        IN IF TrimSpace(SKU) = << >>
           THEN call' = [call EXCEPT ![p] =
                    Respond(r, 400, "parameter 'sku' empty/not found")]
           ELSE HandlerGetProductBySKU(p, r, SKU)
    /\ UNCHANGED << db, productinfo_id_seq, productimage_id_seq, media,
                    lastInsert, lastWrite >>

\* After model.GetProductBySKU: its error is answered 500; else the seller
\* info is fetched from the account service unless the query says testing=1,
\* and a failure of that is answered 500.
GetProductHandlerResponds(p) ==
    /\ HandlerResumes(p, "GetProductHandler", "GetProductBySKU")
    /\ IF call[p].err # "nil"
       THEN call' = [call EXCEPT ![p] = Respond(call[p], 500, call[p].err)]
       ELSE \/ call' = [call EXCEPT ![p] = Respond(call[p], 200, "nil")]
            \/ call' = [call EXCEPT ![p] = Respond(call[p], 500, "SellerInfo")]
    /\ UNCHANGED << db, productinfo_id_seq, productimage_id_seq, media, ncalls,
                    lastInsert, lastWrite >>

GetProductHandler(p) ==
    \/ GetProductHandlerRequest(p)
    \/ GetProductHandlerResponds(p)

\* DeleteProductHandler up to its call of model.DeleteProductBySKU: the role
\* check, the query parameter sku and DB.Begin().
DeleteProductHandlerRequest(p) ==
    /\ Free(p)
    /\ ncalls < MaxCalls
    /\ ncalls' = ncalls + 1
    /\ \E u \in Users, SKU \in SkuQueryInputs :
        LET req == [NoReq EXCEPT !.handler = "DeleteProductHandler", !.u = u,
                                 !.SKU = SKU, !.db = db]
            r == [Idle EXCEPT !.req = req]
            c == [r EXCEPT !.op = "DeleteProductBySKU", !.SKU = SKU]
        IN IF RoleDenied(u, "seller")
           THEN call' = [call EXCEPT ![p] = Respond(r, 403, "Forbidden")]
           ELSE IF TrimSpace(SKU) = << >>
           THEN call' = [call EXCEPT ![p] =
                    Respond(r, 400, "parameter 'sku' empty/not found")]
           ELSE \/ call' = [call EXCEPT ![p] = [c EXCEPT !.pc = "delete"]]
                \/ call' = [call EXCEPT ![p] = Return(c, "StoreError")]
    /\ UNCHANGED << db, productinfo_id_seq, productimage_id_seq, media,
                    lastInsert, lastWrite >>

DeleteProductHandler(p) ==
    \/ DeleteProductHandlerRequest(p)
    \/ HandlerAnswers(p, "DeleteProductHandler", "DeleteProductBySKU")

\* DecreaseStockHandler up to the first query of model.GetProductBySKU: the
\* role check, c.BodyParser(&oQty) and the query parameter sku.
DecreaseStockHandlerRequest(p) ==
    /\ Free(p)
    /\ ncalls < MaxCalls
    /\ ncalls' = ncalls + 1
    /\ \E u \in Users, qty \in QtyInputs, SKU \in SkuQueryInputs :
        LET req == [NoReq EXCEPT !.handler = "DecreaseStockHandler", !.u = u,
                                 !.SKU = SKU, !.qty = qty, !.db = db]
            r == [Idle EXCEPT !.req = req]
        IN IF RoleDenied(u, "seller")
           THEN call' = [call EXCEPT ![p] = Respond(r, 403, "Forbidden")]
           ELSE \/ call' = [call EXCEPT ![p] = Respond(r, 500, "BodyParser")]
                \/ IF TrimSpace(SKU) = << >>
                   THEN call' = [call EXCEPT ![p] =
                            Respond(r, 400, "parameter 'sku' empty/not found")]
                   ELSE HandlerGetProductBySKU(p, r, SKU)
    /\ UNCHANGED << db, productinfo_id_seq, productimage_id_seq, media,
                    lastInsert, lastWrite >>

\* A plausible slip: the stock kept from going below zero.
DecreaseStockFloored(pInfo, Qty) ==
    [pInfo EXCEPT !.Stock = IF @ - Qty < 0 THEN 0 ELSE @ - Qty]

\* p.ProductInfo.Stock -= oQty.Qty
DecreaseStock(pInfo, Qty) == [pInfo EXCEPT !.Stock = @ - Qty]

\* After model.GetProductBySKU: its error is answered 500; else the stock of
\* the product read is decreased and model.UpdateProductInfoBySKU is called
\* with it, up to DB.Begin().
DecreaseStockHandlerUpdate(p) ==
    /\ HandlerResumes(p, "DecreaseStockHandler", "GetProductBySKU")
    /\ LET c == call[p]
           pInfo == DecreaseStock(c.sop[1].ProductInfo, c.req.qty)
           d == [Idle EXCEPT !.op = "UpdateProductInfoBySKU", !.arg = pInfo,
                             !.pInfo = pInfo, !.req = c.req]
       IN IF c.err # "nil"
          THEN call' = [call EXCEPT ![p] = Respond(c, 500, c.err)]
          ELSE \/ call' = [call EXCEPT ![p] = [d EXCEPT !.pc = "update"]]
               \/ call' = [call EXCEPT ![p] = Return(d, "StoreError")]
    /\ UNCHANGED << db, productinfo_id_seq, productimage_id_seq, media, ncalls,
                    lastInsert, lastWrite >>

DecreaseStockHandler(p) ==
    \/ DecreaseStockHandlerRequest(p)
    \/ DecreaseStockHandlerUpdate(p)
    \/ HandlerAnswers(p, "DecreaseStockHandler", "UpdateProductInfoBySKU")

(***************************************************************************)
(* PostgreSQL's deadlock detector: a DELETE of a product whose cascade     *)
(* waits for image rows that an InsertProductImages transaction deleted,   *)
(* while that transaction's INSERT waits for the product the DELETE holds. *)
(* The detector aborts the transaction whose wait times out first.         *)
(***************************************************************************)
Deadlocked(p, q) ==
    /\ call[p].op = "DeleteProductBySKU"
    /\ call[p].pc = "cascade"
    /\ call[q].op = "InsertProductImages"
    /\ call[q].pc = "fkwait"
    /\ call[q].pInfo.ID \in call[p].tx.del
    /\ { m.id : m \in ImagesOf(call[p].tx.del) } \cap call[q].tx.imgDel # {}

DeadlockDetected(p) ==
    /\ \E q \in Procs \ {p} : Deadlocked(p, q) \/ Deadlocked(q, p)
    /\ call' = [call EXCEPT ![p] = Return(call[p], "deadlock_detected")]
    /\ UNCHANGED << db, productinfo_id_seq, productimage_id_seq, media, ncalls,
                    lastInsert, lastWrite >>

(***************************************************************************)
(* utils.GetRandomSKU, statement by statement                              *)
(***************************************************************************)
NIntn == 3           \* distinct values rand.Intn yields at one position

\* Values rand.Intn(len(base)) returns: NIntn of the values 0..len(base)-1,
\* the least and the greatest among them.
IntnOutcomes ==
    { ((k - 1) * (Len(base) - 1)) \div (NIntn - 1) : k \in 1..NIntn }

\* The zero rune that make([]rune, n) fills runeOfSKU with.
ZeroRune == "\\0"

\* rand.Seed, n := 10, base := ..., runeOfSKU := make([]rune, n).  One call
\* is followed at a time: the function shares nothing between calls but the
\* random source.
GetRandomSKUMake(p) ==
    /\ call[p].pc = "done"
    /\ \A q \in Procs \ {p} : call[q].op = "idle"
    /\ call' = [call EXCEPT ![p] =
           [Idle EXCEPT !.op = "GetRandomSKU", !.pc = "loop", !.i = 0,
                        !.SKU = [k \in 1..n |-> ZeroRune]]]
    /\ UNCHANGED << db, productinfo_id_seq, productimage_id_seq, media, ncalls,
                    lastInsert, lastWrite >>

\* A plausible slip: the loop written over 1..n-1, which leaves the first
\* rune of runeOfSKU as make set it.
GetRandomSKULoopFromOne(p) ==
    /\ call[p].op = "GetRandomSKU"
    /\ call[p].pc = "loop"
    /\ \E v \in IntnOutcomes :
          call' = [call EXCEPT ![p] =
              [call[p] EXCEPT !.SKU[call[p].i + 2] = base[v + 1],
                              !.i = call[p].i + 1,
                              !.pc = IF call[p].i + 2 = n
                                     THEN "done" ELSE "loop"]]
    /\ UNCHANGED << db, productinfo_id_seq, productimage_id_seq, media, ncalls,
                    lastInsert, lastWrite >>

\* One iteration of for i := range runeOfSKU (i counts from 0), and after
\* the last one return string(runeOfSKU): SKU holds the returned string.
GetRandomSKULoop(p) ==
    /\ call[p].op = "GetRandomSKU"
    /\ call[p].pc = "loop"
    /\ \E v \in IntnOutcomes :
          call' = [call EXCEPT ![p] =
              [call[p] EXCEPT !.SKU[call[p].i + 1] = base[v + 1],
                              !.i = call[p].i + 1,
                              !.pc = IF call[p].i + 1 = n
                                     THEN "done" ELSE "loop"]]
    /\ UNCHANGED << db, productinfo_id_seq, productimage_id_seq, media, ncalls,
                    lastInsert, lastWrite >>

(***************************************************************************)
(* Specification.                                                          *)
(***************************************************************************)
\* Stores the service can be in when the requests arrive: an empty one, and
\* the ones that InsertProductInfo for the first two ProductInfoInputs and
\* InsertProductImages for the first of them leave.
InitInfo(id) ==
    CHOOSE pInfo \in ProductInfoInputs : pInfo.UserID = id /\ Len(pInfo.Name) = 2

InitImage == << "product-image/", 1, "-", "f" >>

InitStores ==
    { [info |-> { InfoRow(id, InitSKU(id), InitInfo(id)) : id \in 1..k },
       image |-> { [id |-> 1, image_path |-> InitImage,
                    product_productinfo_id |-> id] : id \in 1..k \cap {1} },
       media |-> { InitImage : id \in 1..k }] : k \in 0..2 }

Init ==
    /\ \E store \in InitStores :
        /\ product_productinfo = store.info
        /\ product_productimage = store.image
        /\ productinfo_id_seq = Cardinality(store.info)
        /\ productimage_id_seq = Cardinality(store.image)
        /\ media = store.media
    /\ call = [p \in Procs |-> Idle]
    /\ ncalls = 0
    /\ lastInsert = NoInsert
    /\ lastWrite = NoWrite

Next ==
    \E p \in Procs :
        \/ InsertProductInfo(p)
        \/ UpdateProductInfoBySKU(p)
        \/ DeleteProductBySKU(p)
        \/ InsertProductImages(p)
        \/ GetProducts(p)
        \/ GetProductBySKU(p)
        \/ DeadlockDetected(p)
        \/ AddProductHandler(p)
        \/ UpdateProductHandler(p)

Spec == Init /\ [][Next]_vars

\* The statements of the store calls that follow the first one.
StoreStep(p) ==
    \/ InsertProductInfoLoop(p)
    \/ InsertProductInfoInsert(p)
    \/ InsertProductInfoWait(p)
    \/ InsertProductInfoCommit(p)
    \/ UpdateProductInfoBySKUUpdate(p)
    \/ UpdateProductInfoBySKUWait(p)
    \/ UpdateProductInfoBySKUCommit(p)
    \/ DeleteProductBySKUDelete(p)
    \/ DeleteProductBySKUWait(p)
    \/ DeleteProductBySKUCascade(p)
    \/ DeleteProductBySKUCommit(p)
    \/ InsertProductImagesDelete(p)
    \/ InsertProductImagesWait(p)
    \/ InsertProductImagesFile(p)
    \/ InsertProductImagesFkWait(p)
    \/ InsertProductImagesCommit(p)
    \/ GetProductsImages(p)
    \/ GetProductBySKUImages(p)
    \/ DeadlockDetected(p)

\* The service behind its router: every store call is made by the handler
\* of a request.
APINext ==
    \E p \in Procs :
        \/ AddProductHandler(p)
        \/ GetProductsHandler(p)
        \/ GetProductsByUserIDHandler(p)
        \/ GetProductHandler(p)
        \/ UpdateProductHandler(p)
        \/ DeleteProductHandler(p)
        \/ DecreaseStockHandler(p)
        \/ StoreStep(p)

SpecAPI == Init /\ [][APINext]_vars

\* InsertProductInfo among concurrent inserts, deletes and image
\* replacements, with progress: a request whose store call is past the loop
\* and can take a step takes one in the end (each request has a goroutine of
\* its own and the server answers), and a call in its loop whose generator
\* could yield an unused SKU time and again is yielded one in the end.
\* Nothing makes the loop's lookup fail.
InsertNext ==
    \E p \in Procs :
        \/ InsertProductInfo(p)
        \/ DeleteProductBySKU(p)
        \/ InsertProductImages(p)
        \/ DeadlockDetected(p)

InsertFairness ==
    \A p \in Procs :
        /\ WF_vars(call[p].pc # "loop" /\ StoreStep(p))
        /\ SF_vars(InsertProductInfoLoop(p) /\ call'[p].pc = "insert")

SpecInsert == Init /\ [][InsertNext]_vars /\ InsertFairness

\* The validator on its own: every request calls it with any of its inputs.
ValidatorInit ==
    /\ product_productinfo = {}
    /\ product_productimage = {}
    /\ productinfo_id_seq = 0
    /\ productimage_id_seq = 0
    /\ media = {}
    /\ call = [p \in Procs |-> Idle]
    /\ ncalls = 0
    /\ lastInsert = NoInsert
    /\ lastWrite = NoWrite

ValidatorNext == \E p \in Procs : IsProductInfoValidCall(p)

SpecValidator == ValidatorInit /\ [][ValidatorNext]_vars

\* The SKU generator on its own.
SKUInit == ValidatorInit

SKUNext == \E p \in Procs : GetRandomSKUMake(p) \/ GetRandomSKULoop(p)

SpecSKU == SKUInit /\ [][SKUNext]_vars

(***************************************************************************)
(* Properties.                                                             *)
(***************************************************************************)
\* The call of p is an op call that has returned err.
Returned(p, op, err) ==
    call[p].op = op /\ call[p].pc = "done" /\ call[p].err = err

\* This step is the commit of the transaction of p's op call.
Commits(p, op) ==
    /\ call[p].op = op
    /\ call[p].pc = "commit"
    /\ call'[p].pc = "done"
    /\ call'[p].err = "nil"

\* C1: in every reachable state, whatever the interleaving of
\* InsertProductInfo, UpdateProductInfoBySKU, InsertProductImages and
\* DeleteProductBySKU calls, no two stored product records have the same SKU.
C1_SkuUnique ==
    \A r1, r2 \in product_productinfo : r1.sku = r2.sku => r1 = r2

\* Two calls raced for one SKU, and the store holds it once.
C1_Witness ==
    /\ \E p \in Procs : Returned(p, "InsertProductInfo", "unique_violation")
    /\ \E p \in Procs :
          /\ Returned(p, "InsertProductInfo", "nil")
          /\ \E r \in product_productinfo : r.sku = call[p].pInfo.SKU

\* C2: N concurrent InsertProductInfo calls all succeed with N distinct SKUs,
\* also when several of them draw the same candidate SKU: no call fails
\* because its SKU collides with another call's.
C2_AllInsertsSucceed ==
    /\ C1_SkuUnique
    /\ \A p \in Procs : ~Returned(p, "InsertProductInfo", "unique_violation")

\* C3: once the lookup of an InsertProductInfo call has reported a candidate
\* SKU absent, no other call observes the same SKU absent or claims it before
\* the first call commits.
Observed(p) ==
    /\ call[p].op = "InsertProductInfo"
    /\ call[p].pc \in { "insert", "wait", "commit" }

C3_CheckAndInsertAtomic ==
    \A p, q \in Procs :
        Observed(p) /\ Observed(q) /\ call[p].SKU = call[q].SKU => p = q

\* C4: a successful InsertProductInfo returns a non-zero ID and a non-empty
\* generated SKU, and at its commit the store holds exactly one record with
\* that ID and exactly one with that SKU: the record of the call.
C4_InsertResult ==
    [][\A p \in Procs : Commits(p, "InsertProductInfo") =>
          LET ret == call'[p].pInfo
          IN /\ ret.ID # 0
             /\ ret.SKU # << >>
             /\ ret.SKU \in SKUs
             /\ \E r \in product_productinfo' :
                   /\ r.id = ret.ID
                   /\ r.sku = ret.SKU
                   /\ \A x \in product_productinfo' \ {r} :
                         x.id # ret.ID /\ x.sku # ret.SKU]_vars

\* A call that was passed an ID and the SKU of a stored record has returned
\* another ID and another SKU, next to the record that has the SKU passed.
C4_Witness ==
    \E p \in Procs :
        /\ Returned(p, "InsertProductInfo", "nil")
        /\ call[p].arg.ID # 0
        /\ call[p].pInfo.ID # call[p].arg.ID
        /\ call[p].pInfo.SKU # call[p].arg.SKU
        /\ \E r \in product_productinfo : r.sku = call[p].arg.SKU

\* C5: a step of an InsertProductInfo call other than its successful commit
\* leaves the records and the images of the store as they are, and the row a
\* failed call had inserted is not in the store.
C5_FailedInsertAddsNothing ==
    [][\A p \in Procs :
          /\ call'[p] # call[p]
          /\ call'[p].op = "InsertProductInfo"
          /\ ~(call'[p].pc = "done" /\ call'[p].err = "nil")
          => /\ db' = db
             /\ call'[p].pc = "done" /\ call'[p].pInfo.ID # call'[p].arg.ID =>
                   \A r \in product_productinfo' : r.id # call'[p].pInfo.ID]_vars

\* A call failed at its commit, after its INSERT had returned an ID.
C5_Witness ==
    \E p \in Procs :
        /\ Returned(p, "InsertProductInfo", "StoreError")
        /\ call[p].pInfo.ID \in 1..MaxId
        /\ call[p].pInfo.ID # call[p].arg.ID
        /\ \A r \in product_productinfo : r.id # call[p].pInfo.ID

\* The fields of a ProductInfo other than ID and SKU.
Fields(pInfo) ==
    [Name |-> pInfo.Name, Price |-> pInfo.Price, Weight |-> pInfo.Weight,
     Description |-> pInfo.Description, Stock |-> pInfo.Stock,
     UserID |-> pInfo.UserID]

\* C6: GetProductBySKU(s) right after InsertProductInfo(p) returned SKU s
\* finds a record and returns SKU s and the name, price, weight, description,
\* stock and owning user id of p.
C6_RoundTrip ==
    \A p \in Procs :
        /\ call[p].op = "GetProductBySKU"
        /\ call[p].after # NoInsert
        => /\ call[p].err # "ErrNoRows"
           /\ call[p].sop # << >> =>
                 /\ call[p].sop[1].ProductInfo.SKU = call[p].after.ret.SKU
                 /\ Fields(call[p].sop[1].ProductInfo) = Fields(call[p].after.arg)

\* s contains t as a substring, letter case aside.
Contains(s, t) ==
    \E k \in 0..(Len(s) - Len(t)) :
        \A j \in 1..Len(t) : Lower(s[k + j]) = Lower(t[j])

\* C7: GetProducts(filter, search) returns exactly the stored records whose
\* owner is filter.UserID when that is not 0 and whose name or description
\* contains search, letter case aside, when search is not empty, each once
\* and in ascending order of ID.
C7_GetProducts ==
    [][\A p \in Procs :
          /\ call'[p] # call[p]
          /\ call'[p].op = "GetProducts"
          /\ call[p].pc = "done"
          /\ call'[p].err = "nil"
          => call'[p].rows =
                OrderById({ r \in product_productinfo :
                    /\ call'[p].pInfo.UserID = 0
                       \/ r.account_user_id = call'[p].pInfo.UserID
                    /\ \/ call'[p].search = << >>
                       \/ Contains(r.name, call'[p].search)
                       \/ Contains(r.description, call'[p].search) })]_vars

\* C8: a product that GetProducts or GetProductBySKU returns carries the
\* image rows that reference the product's ID, all of them and no other.
C8_ImagesOfProduct ==
    [][\A p \in Procs :
          /\ call[p].op \in { "GetProducts", "GetProductBySKU" }
          /\ call[p].pc = "images"
          /\ call'[p] # call[p]
          /\ call'[p].err = "nil"
          => LET pr == call'[p].sop[Len(call'[p].sop)]
             IN /\ \A m \in product_productimage :
                      m.product_productinfo_id = pr.ProductInfo.ID =>
                         [ID |-> m.id, ImagePath |-> m.image_path]
                            \in pr.ProductImages
                /\ \A pImage \in pr.ProductImages :
                      \E m \in product_productimage :
                         /\ m.id = pImage.ID
                         /\ m.image_path = pImage.ImagePath
                         /\ m.product_productinfo_id = pr.ProductInfo.ID]_vars

\* A product was returned with its image while another record has none.
C8_Witness ==
    \E p \in Procs :
        /\ call[p].op \in { "GetProducts", "GetProductBySKU" }
        /\ call[p].pc = "done"
        /\ call[p].err = "nil"
        /\ \E k \in 1..Len(call[p].sop) : call[p].sop[k].ProductImages # {}
        /\ \E r \in product_productinfo : ImagesOf({r.id}) = {}

\* C9: unless the store fails, GetProductBySKU(s) returns the record whose
\* SKU is s when there is one and sql.ErrNoRows with no product when there is
\* none; it never returns a record with another SKU.
C9_GetProductBySKU ==
    [][\A p \in Procs :
          /\ call'[p] # call[p]
          /\ call'[p].op = "GetProductBySKU"
          /\ call'[p].err # "StoreError"
          => IF call[p].pc = "done"
             THEN IF \E r \in product_productinfo : r.sku = call'[p].SKU
                  THEN /\ call'[p].pc = "images"
                       /\ \E r \in product_productinfo :
                             /\ r.sku = call'[p].SKU
                             /\ call'[p].sop[1].ProductInfo = ScanInfo(r)
                  ELSE /\ call'[p].pc = "done"
                       /\ call'[p].err = "ErrNoRows"
                       /\ call'[p].sop = << >>
             ELSE /\ call'[p].pc = "done"
                  /\ call'[p].err = "nil"
                  /\ Len(call'[p].sop) = 1
                  /\ call'[p].sop[1].ProductInfo = call[p].sop[1].ProductInfo
                  /\ call'[p].sop[1].ProductInfo.SKU = call'[p].SKU]_vars

\* One call found the record of its SKU, and one call found none for its SKU
\* in a store that holds a record.
C9_Witness ==
    /\ \E p \in Procs :
          /\ Returned(p, "GetProductBySKU", "nil")
          /\ call[p].sop[1].ProductInfo.SKU = call[p].SKU
    /\ \E p \in Procs :
          /\ Returned(p, "GetProductBySKU", "ErrNoRows")
          /\ product_productinfo # {}
          /\ \A r \in product_productinfo : r.sku # call[p].SKU

\* C10: no step changes the ID or the SKU of a stored record, and the commit
\* of UpdateProductInfoBySKU leaves the ID and the SKU of the matched record,
\* every other record and every image row as they are.
C10_UpdateFrame ==
    [][/\ \A r \in product_productinfo, x \in product_productinfo' :
             (r.id = x.id) <=> (r.sku = x.sku)
       /\ \A p \in Procs : Commits(p, "UpdateProductInfoBySKU") =>
             /\ product_productimage' = product_productimage
             /\ \A r \in product_productinfo :
                   r.sku # call[p].pInfo.SKU => r \in product_productinfo'
             /\ \A x \in product_productinfo' :
                   x.sku # call[p].pInfo.SKU => x \in product_productinfo
             /\ \E r \in product_productinfo, x \in product_productinfo' :
                   /\ r.sku = call[p].pInfo.SKU
                   /\ x.sku = r.sku
                   /\ x.id = r.id
                   /\ call'[p].pInfo.ID = r.id]_vars

\* An update has rewritten the fields of one of two records: the store holds
\* its new values under the ID the call returned.
C10_Witness ==
    \E p \in Procs :
        /\ Returned(p, "UpdateProductInfoBySKU", "nil")
        /\ call[p].arg.ID # call[p].pInfo.ID
        /\ Cardinality(product_productinfo) = 2
        /\ \E r \in product_productinfo :
              /\ r.id = call[p].pInfo.ID
              /\ r.sku = call[p].pInfo.SKU
              /\ Fields(ScanInfo(r)) = Fields(call[p].pInfo)
              /\ r # InfoRow(r.id, r.sku, InitInfo(r.id))

\* C11: GetProductBySKU(s) right after a successful UpdateProductInfoBySKU
\* with fields f on SKU s finds a record and returns name, price, weight,
\* description, stock and owning user id all equal to f; and a step that
\* changes a stored record is the commit of an update, after which the record
\* carries all six fields of that update.
C11_UpdateRoundTrip ==
    [][/\ \A p \in Procs :
             /\ call[p].pc = "done"
             /\ call'[p] # call[p]
             /\ call'[p].op = "GetProductBySKU"
             /\ lastWrite.op = "UpdateProductInfoBySKU"
             /\ lastWrite.arg.SKU = call'[p].SKU
             => /\ call'[p].err # "ErrNoRows"
                /\ call'[p].sop # << >> =>
                      Fields(call'[p].sop[1].ProductInfo) = Fields(lastWrite.arg)
       /\ \A r \in product_productinfo, x \in product_productinfo' :
             r.id = x.id /\ r # x =>
                \E p \in Procs :
                    /\ Commits(p, "UpdateProductInfoBySKU")
                    /\ Fields(ScanInfo(x)) = Fields(call[p].arg)]_vars

\* The UPDATE statement of p's UpdateProductInfoBySKU call runs in this step
\* and no stored record has the call's SKU.
UpdatesMissingSKU(p) ==
    /\ call[p].op = "UpdateProductInfoBySKU"
    /\ call[p].pc \in { "update", "wait" }
    /\ call'[p] # call[p]
    /\ \A r \in product_productinfo : r.sku # call[p].pInfo.SKU

\* No step of an UpdateProductInfoBySKU call adds or removes a record or
\* changes an image row.
UpdateCreatesNothing(p) ==
    call'[p] # call[p] /\ call'[p].op = "UpdateProductInfoBySKU" =>
        /\ { r.id : r \in product_productinfo' } =
           { r.id : r \in product_productinfo }
        /\ product_productimage' = product_productimage

C13_DeleteRemoves ==
    [][/\ \A p \in Procs :
             Commits(p, "DeleteProductBySKU") /\ call[p].tx.del # {} =>
                /\ product_productinfo' =
                      { r \in product_productinfo : r.sku # call[p].SKU }
                /\ product_productinfo' # product_productinfo
                /\ product_productimage' =
                      { m \in product_productimage :
                          \E r \in product_productinfo' :
                              r.id = m.product_productinfo_id }
       /\ \A p \in Procs :
             /\ call[p].pc = "done"
             /\ call'[p] # call[p]
             /\ call'[p].op = "GetProductBySKU"
             /\ lastWrite.op = "DeleteProductBySKU"
             /\ lastWrite.found
             /\ lastWrite.arg.SKU = call'[p].SKU
             => /\ call'[p].pc = "done"
                /\ call'[p].err \in { "ErrNoRows", "StoreError" }
                /\ call'[p].sop = << >>]_vars

\* A delete has removed the first of two records and its image, and
\* GetProductBySKU of its SKU has then found no record.
C13_Witness ==
    \E p, q \in Procs :
        /\ Returned(p, "DeleteProductBySKU", "nil")
        /\ Returned(q, "GetProductBySKU", "ErrNoRows")
        /\ call[q].SKU = call[p].SKU
        /\ lastWrite.op = "DeleteProductBySKU"
        /\ lastWrite.found
        /\ productinfo_id_seq = 2
        /\ Cardinality(product_productinfo) = 1
        /\ productimage_id_seq = 1
        /\ product_productimage = {}

\* C14: unless the store fails, a DeleteProductBySKU whose DELETE finds no
\* record with its SKU goes on to its commit with nothing to delete and
\* returns nil, and no step of it changes a record or an image row; so does
\* a second delete of a SKU that a first one removed.
C14_DeleteMissing ==
    [][\A p \in Procs :
          /\ call[p].op = "DeleteProductBySKU"
          /\ call'[p] # call[p]
          => /\ /\ call[p].pc \in { "delete", "wait" }
                /\ \A r \in product_productinfo : r.sku # call[p].SKU
                => \/ call'[p].pc = "done" /\ call'[p].err = "StoreError"
                   \/ /\ call'[p].pc = "commit"
                      /\ call'[p].tx = NoTx
             /\ call[p].pc = "commit" /\ call[p].tx = NoTx
                => /\ db' = db
                   /\ call'[p].pc = "done"
                   /\ call'[p].err \in { "nil", "StoreError" }
             /\ call[p].pc # "commit" => db' = db]_vars

\* Two deletes of a SKU have returned nil: the first removed its record, the
\* second found none and left the other record and the store as they were.
C14_Witness ==
    \E p, q \in Procs :
        /\ p # q
        /\ Returned(p, "DeleteProductBySKU", "nil")
        /\ Returned(q, "DeleteProductBySKU", "nil")
        /\ call[p].SKU = call[q].SKU
        /\ lastWrite.op = "DeleteProductBySKU"
        /\ ~lastWrite.found
        /\ productinfo_id_seq = 2
        /\ Cardinality(product_productinfo) = 1

\* C15: in every reachable state, every row of product_productimage
\* references a row of product_productinfo, also when InsertProductImages
\* for a record runs concurrently with DeleteProductBySKU of that record.
C15_ImagesReferenceRecords ==
    \A m \in product_productimage :
        \E r \in product_productinfo : r.id = m.product_productinfo_id

\* An InsertProductImages call has deleted the record's old image row and
\* waits to insert a new one, while a concurrent DeleteProductBySKU holds the
\* record deleted and has not committed yet.
C15_Witness ==
    \E p, q \in Procs :
        /\ call[p].op = "InsertProductImages"
        /\ call[p].pc = "fkwait"
        /\ call[q].op = "DeleteProductBySKU"
        /\ call[q].pc \in { "cascade", "commit" }
        /\ call[p].pInfo.ID \in call[q].tx.del
        /\ ImagesOf({call[p].pInfo.ID}) # {}

\* C16: at the commit of a successful InsertProductImages(fileHeaders, pInfo)
\* the image rows of record pInfo.ID are exactly one new row per file of
\* fileHeaders, every image row the record had is gone, and the image rows of
\* the other records are unchanged.
C16_ImagesReplaced ==
    [][\A p \in Procs : Commits(p, "InsertProductImages") =>
          LET ID == call[p].pInfo.ID
              now == { m \in product_productimage' :
                         m.product_productinfo_id = ID }
          IN /\ Cardinality(now) = Len(call[p].fileHeaders)
             /\ \A m \in now :
                   \A o \in product_productimage : o.id # m.id
             /\ \A o \in product_productimage :
                   o.product_productinfo_id = ID => o \notin product_productimage'
             /\ { m \in product_productimage' : m.product_productinfo_id # ID }
                   = { m \in product_productimage :
                         m.product_productinfo_id # ID }]_vars

\* C17: a step of an InsertProductImages call other than its successful
\* commit leaves the records and the image rows of the store as they are;
\* when the call fails after its DELETE or after some of its INSERTs, it
\* returns an error, the rows it had inserted are not in the table and the
\* rows it had deleted still are.
C17_FailedImagesRollBack ==
    [][\A p \in Procs :
          /\ call'[p] # call[p]
          /\ call'[p].op = "InsertProductImages"
          /\ ~Commits(p, "InsertProductImages")
          => /\ db' = db
             /\ call[p].op = "InsertProductImages" /\ call'[p].pc = "done" =>
                   /\ call'[p].err # "nil"
                   /\ \A m \in call[p].tx.imgIns :
                         \A o \in product_productimage' : o.id # m.id
                   /\ \A id \in call[p].tx.imgDel :
                         \E o \in product_productimage' :
                            /\ o.id = id
                            /\ o.product_productinfo_id = call[p].pInfo.ID]_vars

\* A call with two files has failed at the second one, after it had deleted
\* the record's image row and inserted a new one: the record has the image
\* row it had, and no other.
C17_Witness ==
    \E p \in Procs :
        /\ call[p].op = "InsertProductImages"
        /\ call[p].pc = "done"
        /\ call[p].err # "nil"
        /\ Len(call[p].fileHeaders) = 2
        /\ call[p].i = 2
        /\ productimage_id_seq >= 2
        /\ ImagesOf({call[p].pInfo.ID}) =
              { [id |-> 1, image_path |-> InitImage,
                 product_productinfo_id |-> call[p].pInfo.ID] }

\* C18: IsProductInfoValid returns "name empty/not found" when the name has
\* no character other than white space, else "price empty/not found" when
\* the price is 0, else "weight empty/not found" when the weight is 0, else
\* nil; and calls that agree on name, price and weight return the same.
C18_Validator ==
    /\ \A p \in Procs : call[p].op = "IsProductInfoValid" =>
          LET pi == call[p].arg
          IN call[p].err =
                IF \A k \in 1..Len(pi.Name) : pi.Name[k] \in WhiteSpace
                THEN "name empty/not found"
                ELSE IF pi.Price = 0 THEN "price empty/not found"
                ELSE IF pi.Weight = 0 THEN "weight empty/not found"
                ELSE "nil"
    /\ \A p, q \in Procs :
          /\ call[p].op = "IsProductInfoValid"
          /\ call[q].op = "IsProductInfoValid"
          /\ call[p].arg.Name = call[q].arg.Name
          /\ call[p].arg.Price = call[q].arg.Price
          /\ call[p].arg.Weight = call[q].arg.Weight
          => call[p].err = call[q].err

\* A blank name with price 0 and weight 0 was reported as the name error
\* only, and a ProductInfo with the same price and weight of 0 but a name was
\* reported as the price error, whatever its other fields.
C18_Witness ==
    \E p, q \in Procs :
        /\ call[p].op = "IsProductInfoValid"
        /\ call[p].arg.Name = << " " >>
        /\ call[p].arg.Price = 0
        /\ call[p].arg.Weight = 0
        /\ call[p].err = "name empty/not found"
        /\ call[q].op = "IsProductInfoValid"
        /\ call[q].arg.Name = << " ", "A", " " >>
        /\ call[q].arg.Price = 0
        /\ call[q].arg.Weight = 0
        /\ call[q].arg.Stock # 0
        /\ call[q].err = "price empty/not found"

\* The 62 characters 0-9, a-z, A-Z.
Alphabet62 ==
    { "0", "1", "2", "3", "4", "5", "6", "7", "8", "9" }
    \cup { "a", "b", "c", "d", "e", "f", "g", "h", "i", "j", "k", "l", "m",
           "n", "o", "p", "q", "r", "s", "t", "u", "v", "w", "x", "y", "z" }
    \cup { "A", "B", "C", "D", "E", "F", "G", "H", "I", "J", "K", "L", "M",
           "N", "O", "P", "Q", "R", "S", "T", "U", "V", "W", "X", "Y", "Z" }

\* C19: every string GetRandomSKU returns has length 10 and every character
\* of it is one of the 62 characters 0-9, a-z, A-Z.
C19_SkuFormat ==
    /\ Cardinality(Alphabet62) = 62
    /\ \A p \in Procs :
          call[p].op = "GetRandomSKU" /\ call[p].pc = "done" =>
             /\ Len(call[p].SKU) = 10
             /\ \A k \in 1..Len(call[p].SKU) : call[p].SKU[k] \in Alphabet62

\* A call has returned a string that begins with the first character of the
\* alphabet and ends with the last.
C19_Witness ==
    \E p \in Procs :
        /\ call[p].op = "GetRandomSKU"
        /\ call[p].pc = "done"
        /\ call[p].SKU[1] = "0"
        /\ call[p].SKU[10] = "Z"

\* C20: every record that a commit of AddProductHandler's or
\* UpdateProductHandler's product info step stores, new or rewritten, has a
\* non-empty name, a price above 0 and a weight above 0.
C20_StoredFieldsPositive ==
    [][\A p \in Procs :
          /\ call[p].req.handler \in
                { "AddProductHandler", "UpdateProductHandler" }
          /\ \/ Commits(p, "InsertProductInfo")
             \/ Commits(p, "UpdateProductInfoBySKU")
          => \A x \in product_productinfo' \ product_productinfo :
                /\ x.name # << >>
                /\ x.price > 0
                /\ x.weight > 0]_vars

\* C21: the record that POST /api/product/ creates has the ID of the
\* authenticated caller as its owning user, whatever user_id the form holds,
\* and no step of any request changes the owning user of a stored record.
C21_OwnerImmutable ==
    [][/\ \A p \in Procs :
             /\ Commits(p, "InsertProductInfo")
             /\ call[p].req.handler = "AddProductHandler"
             => \A x \in product_productinfo' \ product_productinfo :
                   x.account_user_id = call[p].req.u.ID
       /\ \A r \in product_productinfo, x \in product_productinfo' :
             r.id = x.id => x.account_user_id = r.account_user_id]_vars

\* The role each route's handler requires; GetProductHandler requires none.
RequiredRole(handler) ==
    IF handler = "GetProductsHandler" THEN "buyer" ELSE "seller"

RoleHandlers ==
    { "AddProductHandler", "GetProductsHandler", "GetProductsByUserIDHandler",
      "UpdateProductHandler", "DeleteProductHandler", "DecreaseStockHandler" }

\* This step is the first one of a request of p.
Arrives(p) == ncalls' = ncalls + 1 /\ call'[p] # call[p]

\* C22: a request to a route that requires a role, made with another role,
\* is answered 403 in its first step, whatever its form, body and query
\* parameters are, and that step changes no table, sequence or media file;
\* and a request that was answered runs no further step.
C22_RoleCheck ==
    [][\A p \in Procs :
          /\ /\ Arrives(p)
             /\ call'[p].req.handler \in RoleHandlers
             /\ call'[p].req.u.Role # RequiredRole(call'[p].req.handler)
             => /\ call'[p].status = 403
                /\ call'[p].pc = "done"
                /\ call'[p].tx = NoTx
                /\ db' = db
                /\ productinfo_id_seq' = productinfo_id_seq
                /\ productimage_id_seq' = productimage_id_seq
                /\ media' = media
          /\ call[p].status # 0 /\ call'[p] # call[p] => Arrives(p)]_vars

\* A buyer's POST with a blank name and a buyer's DELETE of a stored record
\* were answered 403, and the record is still there.
C22_Witness ==
    \E p, q \in Procs :
        /\ call[p].req.handler = "AddProductHandler"
        /\ call[p].req.u.Role = "buyer"
        /\ IsProductInfoValid(call[p].req.form) # "nil"
        /\ call[p].status = 403
        /\ call[q].req.handler = "DeleteProductHandler"
        /\ call[q].req.u.Role = "buyer"
        /\ call[q].status = 403
        /\ \E r \in product_productinfo : r.sku = call[q].req.SKU

\* C23: GET /api/products/user/ by a seller with ID u finds exactly the
\* stored records whose owning user is u and, when there is a search term,
\* whose name or description contains it, letter case aside; every product
\* in its answer is owned by u.
C23_OwnProductsOnly ==
    [][\A p \in Procs :
          /\ /\ Arrives(p)
             /\ call'[p].req.handler = "GetProductsByUserIDHandler"
             /\ call'[p].op = "GetProducts"
             /\ call'[p].err = "nil"
             => call'[p].rows =
                   OrderById({ r \in product_productinfo :
                       /\ r.account_user_id = call'[p].req.u.ID
                       /\ \/ call'[p].req.search = << >>
                          \/ Contains(r.name, call'[p].req.search)
                          \/ Contains(r.description, call'[p].req.search) })
          /\ /\ call'[p].req.handler = "GetProductsByUserIDHandler"
             /\ call'[p].status = 200
             => \A k \in 1..Len(call'[p].sop) :
                   call'[p].sop[k].ProductInfo.UserID = call'[p].req.u.ID]_vars

\* The form has a blank name, no price or a price of 0, or no weight or a
\* weight of 0 (a field the form lacks is left at its zero value).
FailsValidation(form) ==
    \/ \A k \in 1..Len(form.Name) : form.Name[k] \in WhiteSpace
    \/ form.Price = 0
    \/ form.Weight = 0

\* C24: a seller's POST or PUT /api/product/ whose form, as c.BodyParser
\* read it, has a blank name, a price of 0 or a weight of 0 is answered 400
\* in its first step, with no store call; and a step that answers 400
\* changes no table, sequence or media file.
C24_InvalidFormRejected ==
    [][\A p \in Procs :
          /\ /\ Arrives(p)
             /\ call'[p].req.handler \in
                   { "AddProductHandler", "UpdateProductHandler" }
             /\ call'[p].req.u.Role = "seller"
             /\ call'[p].err # "BodyParser"
             /\ FailsValidation(call'[p].req.form)
             => /\ call'[p].status = 400
                /\ call'[p].op = call'[p].req.handler
                /\ call'[p].tx = NoTx
          /\ call'[p].status = 400 /\ call'[p] # call[p]
             => /\ db' = db
                /\ productinfo_id_seq' = productinfo_id_seq
                /\ productimage_id_seq' = productimage_id_seq
                /\ media' = media]_vars

\* A PUT for a stored record that has an image, with a price of 0 and a file
\* to upload, and a POST with a weight of 0 were answered 400; the record
\* and its image are as they were and no record was created.
C24_Witness ==
    \E p, q \in Procs :
        /\ call[p].req.handler = "UpdateProductHandler"
        /\ call[p].status = 400
        /\ call[p].req.form.Name = << "A", "b" >>
        /\ call[p].req.form.Price = 0
        /\ call[p].req.files # << >>
        /\ \E r \in product_productinfo :
              /\ r.sku = call[p].req.SKU
              /\ r.price # 0
              /\ ImagesOf({r.id}) # {}
        /\ call[q].req.handler = "AddProductHandler"
        /\ call[q].status = 400
        /\ call[q].req.form.Weight = 0
        /\ call[q].req.form.Price # 0
        /\ db = call[q].req.db
        /\ productinfo_id_seq = Cardinality(product_productinfo)

\* C25: when a request that ran with no other request beside it is answered
\* 500, the two tables hold exactly the rows they held when it arrived, also
\* when POST or PUT /api/product/ fails at its images after its product info
\* step.
C25_NoPartialState ==
    [][\A p \in Procs :
          /\ call'[p] # call[p]
          /\ call'[p].status = 500
          /\ \A q \in Procs \ {p} : call[q] = Idle
          => db' = call'[p].req.db]_vars

\* C26: when PUT /api/product/decrease/stock/ with quantity q on SKU s, run
\* with no other request beside it, is answered 200, the store holds the
\* records it held when the request arrived, the one with SKU s with its
\* stock lowered by q (below zero when q exceeds it) and its ID, SKU, name,
\* price, weight, description and owning user as they were, and the image
\* rows it held.
C26_DecreaseStock ==
    [][\A p \in Procs :
          /\ call'[p] # call[p]
          /\ call'[p].req.handler = "DecreaseStockHandler"
          /\ call'[p].status = 200
          /\ \A q \in Procs \ {p} : call[q] = Idle
          => LET req == call'[p].req
             IN /\ \E r \in req.db[1] : r.sku = req.SKU
                /\ product_productinfo' =
                      { IF r.sku = req.SKU
                        THEN [r EXCEPT !.stock = r.stock - req.qty]
                        ELSE r : r \in req.db[1] }
                /\ product_productimage' = req.db[2]]_vars

\* A request with a quantity above the stock of a record that has an image
\* was answered 200: the stock is below zero, the image is there.
C26_Witness ==
    \E p \in Procs :
        /\ call[p].req.handler = "DecreaseStockHandler"
        /\ call[p].status = 200
        /\ \A q \in Procs \ {p} : call[q] = Idle
        /\ \E r \in product_productinfo :
              /\ r.sku = call[p].req.SKU
              /\ r.stock < 0
              /\ r.stock = InitInfo(r.id).Stock - call[p].req.qty
              /\ ImagesOf({r.id}) # {}

\* C27: an iteration of InsertProductInfo's loop whose lookup finds a record
\* with the candidate SKU stays in the loop, and one whose lookup finds none
\* (in a store call that does not fail) leaves it with that candidate; the
\* call inserts nothing while it is in the loop, and the row it inserts
\* carries the candidate the loop left with.
C27_RetryLoop ==
    [][\A p \in Procs :
          /\ call[p].op = "InsertProductInfo"
          /\ call'[p] # call[p]
          /\ call'[p].op = "InsertProductInfo"
          => /\ call[p].pc = "loop" =>
                   /\ call[p].tx = NoTx
                   /\ call'[p].tx = NoTx
                   /\ productinfo_id_seq' = productinfo_id_seq
                   /\ call'[p].pc = "loop" =>
                         \E r \in product_productinfo : r.sku = call'[p].SKU
                   /\ call'[p].pc = "insert" =>
                         \A r \in product_productinfo : r.sku # call'[p].SKU
                   /\ call'[p].pc \in { "loop", "insert", "done" }
                   /\ call'[p].pc = "done" => call'[p].err = "StoreError"
             /\ call[p].pc \in { "insert", "wait", "commit" } =>
                   /\ call'[p].SKU = call[p].SKU
                   /\ call'[p].pc # "loop"
                   /\ \A x \in call'[p].tx.ins : x.sku = call[p].SKU
             /\ Commits(p, "InsertProductInfo") =>
                   /\ product_productinfo' \ product_productinfo = call[p].tx.ins
                   /\ \E x \in call[p].tx.ins : x.sku = call[p].SKU]_vars

\* A call is in its loop with a candidate it has discarded, the SKU of a
\* stored record, while the other SKU is free; the call has inserted nothing.
C27_Witness ==
    \E p \in Procs :
        /\ call[p].op = "InsertProductInfo"
        /\ call[p].pc = "loop"
        /\ call[p].SKU \in SKUs
        /\ \E r \in product_productinfo : r.sku = call[p].SKU
        /\ \E SKU \in SKUs : RowsBySKU(SKU) = {}
        /\ call[p].tx = NoTx
        /\ productinfo_id_seq = Cardinality(product_productinfo)

\* C28: the commit of the stock decrement of a PUT
\* /api/product/decrease/stock/ with quantity q leaves the record as the last
\* committed transaction left it, with its stock lowered by q, whatever
\* requests ran meanwhile; and when the only two requests so far, both
\* decrements of one SKU, have been answered 200, the stock of the record is
\* its initial stock minus the two quantities.
C28_DecrementAtomic ==
    [][/\ \A p \in Procs :
             /\ Commits(p, "UpdateProductInfoBySKU")
             /\ call[p].req.handler = "DecreaseStockHandler"
             => \A r \in product_productinfo :
                   r.sku = call[p].pInfo.SKU =>
                      [r EXCEPT !.stock = r.stock - call[p].req.qty]
                         \in product_productinfo'
       /\ \A p, q \in Procs :
             /\ p # q
             /\ ncalls = 2
             /\ call'[p] # call[p]
             /\ call'[p].req.handler = "DecreaseStockHandler"
             /\ call'[p].status = 200
             /\ call[q].req.handler = "DecreaseStockHandler"
             /\ call[q].status = 200
             /\ call[q].req.SKU = call'[p].req.SKU
             => \A r \in product_productinfo' :
                   r.sku = call[q].req.SKU =>
                      r.stock = InitInfo(r.id).Stock
                                   - call'[p].req.qty - call[q].req.qty]_vars

\* C29: a record appears in the store only at the commit of an
\* InsertProductInfo, with the SKU that call drew, and the SKU of a record
\* never changes, so that a SKU whose record DeleteProductBySKU removed stays
\* absent until an insert draws it; an UpdateProductInfoBySKU (of PUT
\* /api/product/ or of a stock decrement) whose UPDATE runs when no record
\* has its SKU, and an InsertProductImages whose INSERT runs when no record
\* has its ID, return an error and change nothing, the handler answers 500,
\* and no image row is added for a record that is not there.
C29_DeletedStaysDeleted ==
    [][/\ \A x \in product_productinfo' :
             (\A r \in product_productinfo : r.id # x.id) =>
                \E p \in Procs :
                   /\ Commits(p, "InsertProductInfo")
                   /\ x \in call[p].tx.ins
                   /\ x.sku = call[p].SKU
       /\ \A r \in product_productinfo, x \in product_productinfo' :
             r.id = x.id => x.sku = r.sku
       /\ \A m \in product_productimage' \ product_productimage :
             \E r \in product_productinfo' : r.id = m.product_productinfo_id
       /\ \A p \in Procs :
             /\ call'[p] # call[p]
             /\ \/ /\ call[p].op = "UpdateProductInfoBySKU"
                   /\ call[p].pc \in { "update", "wait" }
                   /\ \A r \in product_productinfo : r.sku # call[p].pInfo.SKU
                \/ /\ call[p].op = "InsertProductImages"
                   /\ call[p].pc \in { "file", "fkwait" }
                   /\ \A r \in product_productinfo : r.id # call[p].pInfo.ID
             => /\ call'[p].pc = "done"
                /\ call'[p].err # "nil"
                /\ db' = db
       /\ \A p \in Procs :
             /\ call'[p] # call[p]
             /\ call[p].req.handler # ""
             /\ call[p].status = 0
             /\ call[p].pc = "done"
             /\ call[p].err # "nil"
             => call'[p].status = 500]_vars

\* A stock decrement read the record, a DELETE of the record then committed
\* and was answered 200, and the decrement's UPDATE returned sql.ErrNoRows:
\* no record has the SKU.
C29_Witness ==
    \E p, q \in Procs :
        /\ call[p].req.handler = "DeleteProductHandler"
        /\ call[p].status = 200
        /\ call[q].req.handler = "DecreaseStockHandler"
        /\ call[q].req.SKU = call[p].req.SKU
        /\ call[q].op = "UpdateProductInfoBySKU"
        /\ call[q].pc = "done"
        /\ call[q].err = "ErrNoRows"
        /\ call[q].arg.ID # 0
        /\ \E r \in call[q].req.db[1] : r.sku = call[q].req.SKU
        /\ \A r \in product_productinfo : r.sku # call[q].req.SKU

\* An InsertProductInfo call of p has begun and has not returned.
InsertRuns(p) == call[p].op = "InsertProductInfo" /\ call[p].pc # "done"

\* One of the NSkus values of the SKU is the SKU of no stored record.
SkuLeft == \E k \in 1..NSkus : RowsBySKU(InitSKU(k)) = {}

\* C30: if time and again some SKU is unused by the stored records, every
\* InsertProductInfo call that has begun returns in the end, with nil or an
\* error (as long as the id sequence has a value left for it); and a call
\* leaves its loop only with a candidate that the lookup did not find or
\* with the error of the lookup.
C30_InsertTerminates ==
    /\ \A p \in Procs :
          []<>SkuLeft =>
              (InsertRuns(p) ~> (~InsertRuns(p) \/ productinfo_id_seq = MaxId))
    /\ [][\A p \in Procs :
             /\ call[p].op = "InsertProductInfo"
             /\ call[p].pc = "loop"
             /\ call'[p].pc # "loop"
             => \/ /\ call'[p].pc = "insert"
                   /\ RowsBySKU(call'[p].SKU) = {}
                \/ /\ call'[p].pc = "done"
                   /\ call'[p].err = "StoreError"]_vars

\* A call has returned nil with the one SKU that was left: until then every
\* other candidate sent it round its loop.
C30_Witness ==
    \E p \in Procs :
        /\ Returned(p, "InsertProductInfo", "nil")
        /\ productinfo_id_seq = NSkus
        /\ Cardinality(product_productinfo) = NSkus
        /\ ~SkuLeft
        /\ \E r \in product_productinfo : r.sku = call[p].pInfo.SKU

====
